---- MODULE Spec2Model ----
(***************************************************************************)
(* Model of the BevGenie page-generation core:                             *)
(*   - page-specs.ts      : VALIDATION_RULES, truncateText, sanitize*,      *)
(*                          validatePageSpec / validateSection              *)
(*   - page-generator.ts  : generatePageSpec (template + retry variant and  *)
(*                          intent-based variant), generatePagesBatch       *)
(*   - intent-classifier  : classifyIntent                                  *)
(*   - api/chat/stream    : processStreamWithController                     *)
(***************************************************************************)
EXTENDS Integers, Sequences, FiniteSets, TLC

(***************************************************************************)
(* JavaScript values.  Every value is a record with a tag k; objects are    *)
(* records whose other fields are their own properties.                     *)
(***************************************************************************)
Undefined == [k |-> "undefined"]

Null == [k |-> "null"]

Str(s) == [k |-> "string", s |-> s]

Num(n) == [k |-> "number", n |-> n]

Arr(a) == [k |-> "array", a |-> a]

IsNullish(v) == v.k \in {"undefined", "null"}

\* JS truthiness: undefined, null, "" and 0 are falsy.
Truthy(v) ==
  /\ ~IsNullish(v)
  /\ (v.k = "string" => Len(v.s) > 0)
  /\ (v.k = "number" => v.n # 0)
  /\ (v.k = "boolean" => v.b)

\* Property read o.f on a non-nullish value (a string or a number has no own
\* page properties apart from a string's length).
Get(o, f) ==
  IF o.k = "object" /\ f \in DOMAIN o THEN o[f] ELSE Undefined

\* v.length
JsLength(v) ==
  CASE v.k = "string" -> Num(Len(v.s))
    [] v.k = "array" -> Num(Len(v.a))
    [] OTHER -> Get(v, "length")

\* v.length < n and v.length > n (false when length is not a number)
LengthLT(v, n) == JsLength(v).k = "number" /\ JsLength(v).n < n

LengthGT(v, n) == JsLength(v).k = "number" /\ JsLength(v).n > n

\* { ...o, ...upd } for objects
Spread(o, upd) ==
  [f \in (DOMAIN o) \cup (DOMAIN upd) |-> IF f \in DOMAIN upd THEN upd[f] ELSE o[f]]

RECURSIVE Flatten(_)
Flatten(ss) == IF ss = <<>> THEN <<>> ELSE Head(ss) \o Flatten(Tail(ss))

RECURSIVE Rep(_, _)
\* the string made of n copies of the character c
Rep(c, n) ==
  IF n <= 0 THEN ""
  ELSE IF n = 1 THEN c
  ELSE LET half == Rep(c, n \div 2)
       IN IF n % 2 = 1 THEN half \o half \o c ELSE half \o half

(***************************************************************************)
(* page-specs.ts                                                            *)
(***************************************************************************)
VALIDATION_RULES ==
  [ hero |-> [headline |-> [minLength |-> 10, maxLength |-> 100],
              subheadline |-> [minLength |-> 20, maxLength |-> 150]],
    feature_grid |-> [minFeatures |-> 2, maxFeatures |-> 6,
                      featureTitle |-> [minLength |-> 5, maxLength |-> 50],
                      featureDescription |-> [minLength |-> 10, maxLength |-> 150]],
    testimonial |-> [quote |-> [minLength |-> 20, maxLength |-> 300],
                     author |-> [minLength |-> 2, maxLength |-> 50]],
    comparison_table |-> [minRows |-> 3, maxRows |-> 12,
                          feature |-> [minLength |-> 5, maxLength |-> 50]],
    cta |-> [title |-> [minLength |-> 10, maxLength |-> 100],
             minButtons |-> 1, maxButtons |-> 3],
    faq |-> [minItems |-> 2, maxItems |-> 8,
             question |-> [minLength |-> 10, maxLength |-> 100],
             answer |-> [minLength |-> 20, maxLength |-> 500]],
    metrics |-> [minMetrics |-> 1, maxMetrics |-> 5,
                 value |-> [minLength |-> 1, maxLength |-> 20]],
    steps |-> [minSteps |-> 2, maxSteps |-> 10,
               title |-> [minLength |-> 5, maxLength |-> 50],
               description |-> [minLength |-> 10, maxLength |-> 200]],
    single_screen |-> [headline |-> [minLength |-> 20, maxLength |-> 80],
                       subtitle |-> [minLength |-> 15, maxLength |-> 60],
                       minInsights |-> 3, maxInsights |-> 4,
                       insightText |-> [minLength |-> 50, maxLength |-> 250],
                       minStats |-> 3, maxStats |-> 3,
                       statValue |-> [minLength |-> 1, maxLength |-> 15],
                       statLabel |-> [minLength |-> 5, maxLength |-> 40],
                       visualContentTitle |-> [minLength |-> 10, maxLength |-> 50],
                       visualContentText |-> [minLength |-> 100, maxLength |-> 400],
                       visualContentHighlight |-> [minLength |-> 20, maxLength |-> 200],
                       howItWorksStep |-> [minLength |-> 20, maxLength |-> 100],
                       minHowItWorksSteps |-> 3, maxHowItWorksSteps |-> 5,
                       minCTAs |-> 2, maxCTAs |-> 3,
                       ctaText |-> [minLength |-> 5, maxLength |-> 40]] ]

\* Property names every object literal inherits from Object.prototype: a lookup
\* VALIDATION_RULES[key] with one of them yields a (truthy) inherited member.
ObjectPrototypeKeys ==
  {"constructor", "toString", "valueOf", "hasOwnProperty", "isPrototypeOf",
   "propertyIsEnumerable", "toLocaleString", "__proto__"}

\* The outcome "a TypeError (or any exception) was thrown"
Threw == [k |-> "throw"]

\* v.length <= n (false when length is not a number)
LengthLE(v, n) == JsLength(v).k = "number" /\ JsLength(v).n <= n

\* Own enumerable properties copied by { ...v }: an object's properties, a
\* string's indexed characters, nothing for any other value.
OwnProps(v) ==
  CASE v.k = "object" -> v
    [] v.k = "string" ->
         [f \in {"k"} \cup {ToString(i) : i \in 0..(Len(v.s) - 1)} |->
            IF f = "k" THEN "object"
            ELSE Str(SubSeq(v.s, (CHOOSE i \in 0..(Len(v.s) - 1) : ToString(i) = f) + 1,
                                 (CHOOSE i \in 0..(Len(v.s) - 1) : ToString(i) = f) + 1))]
    [] OTHER -> [k |-> "object"]

\* a.slice(0, n) on an array value
SliceTo(a, n) == SubSeq(a, 1, IF Len(a) < n THEN Len(a) ELSE n)

\* xs.map(Op) on a sequence; Threw when Op threw on some element
MapOrThrow(Op(_), xs) ==
  LET ys == [i \in 1..Len(xs) |-> Op(xs[i])]
  IN IF \E i \in 1..Len(xs) : ys[i] = Threw THEN Threw ELSE Arr(ys)

\* truncateText cutting at maxLength without the ellipsis
truncateTextNoEllipsis(text, maxLength) ==
  IF ~Truthy(text) \/ LengthLE(text, maxLength)
  THEN text
  ELSE IF text.k = "string"
       THEN Str(SubSeq(text.s, 1, maxLength))
       ELSE Threw

\* truncateText(text, maxLength), text a JS value: only a string has
\* substring, so a truthy non-string whose length is not <= maxLength throws.
truncateText(text, maxLength) ==
  IF ~Truthy(text) \/ LengthLE(text, maxLength)
  THEN text
  ELSE IF text.k = "string"
       THEN Str(SubSeq(text.s, 1, maxLength - 3) \o "...")
       ELSE Threw

\* v?.slice(0, max).map(Op) || []   (v is section.<array field>)
SliceMapOrEmpty(v, max, Op(_)) ==
  CASE IsNullish(v) -> Arr(<<>>)
    [] v.k = "array" -> MapOrThrow(Op, SliceTo(v.a, max))
    [] OTHER -> Threw

sanitizeInsight(insight) ==
  IF IsNullish(insight) THEN Threw
  ELSE LET t == truncateText(IF Truthy(Get(insight, "text")) THEN Get(insight, "text")
                             ELSE insight,
                             VALIDATION_RULES.single_screen.insightText.maxLength)
       IN IF t = Threw THEN Threw ELSE [k |-> "object", text |-> t]

sanitizeStat(stat) ==
  IF IsNullish(stat) THEN Threw
  ELSE LET v == truncateText(Get(stat, "value"),
                             VALIDATION_RULES.single_screen.statValue.maxLength)
           l == truncateText(Get(stat, "label"),
                             VALIDATION_RULES.single_screen.statLabel.maxLength)
           d == IF Truthy(Get(stat, "description"))
                THEN truncateText(Get(stat, "description"), 50)
                ELSE Undefined
       IN IF Threw \in {v, l, d} THEN Threw
          ELSE [k |-> "object", value |-> v, label |-> l, description |-> d]

sanitizeVisualContent(vc) ==
  IF ~Truthy(vc) THEN vc
  ELSE LET t == truncateText(Get(vc, "title"),
                             VALIDATION_RULES.single_screen.visualContentTitle.maxLength)
           c == truncateText(Get(vc, "content"),
                             VALIDATION_RULES.single_screen.visualContentText.maxLength)
           h == IF Truthy(Get(vc, "highlight"))
                THEN truncateText(Get(vc, "highlight"),
                                  VALIDATION_RULES.single_screen.visualContentHighlight.maxLength)
                ELSE Undefined
       IN IF Threw \in {t, c, h} THEN Threw
          ELSE [k |-> "object", type |-> Get(vc, "type"), title |-> t,
                content |-> c, highlight |-> h]

sanitizeStep(step) ==
  truncateText(step, VALIDATION_RULES.single_screen.howItWorksStep.maxLength)

sanitizeCta(cta) ==
  IF IsNullish(cta) THEN Threw
  ELSE LET t == truncateText(Get(cta, "text"),
                             VALIDATION_RULES.single_screen.ctaText.maxLength)
       IN IF t = Threw THEN Threw ELSE Spread(OwnProps(cta), [text |-> t])

\* sanitizeSingleScreenSection(section), section an object
sanitizeSingleScreenSection(section) ==
  LET rules == VALIDATION_RULES.single_screen
      upd == [ headline |-> truncateText(Get(section, "headline"), rules.headline.maxLength),
               subtitle |-> truncateText(Get(section, "subtitle"), rules.subtitle.maxLength),
               insights |-> SliceMapOrEmpty(Get(section, "insights"), rules.maxInsights,
                                            sanitizeInsight),
               stats |-> SliceMapOrEmpty(Get(section, "stats"), rules.maxStats, sanitizeStat),
               visualContent |-> sanitizeVisualContent(Get(section, "visualContent")),
               howItWorks |-> SliceMapOrEmpty(Get(section, "howItWorks"),
                                              rules.maxHowItWorksSteps, sanitizeStep),
               ctas |-> SliceMapOrEmpty(Get(section, "ctas"), rules.maxCTAs, sanitizeCta) ]
  IN IF \E f \in DOMAIN upd : upd[f] = Threw THEN Threw ELSE Spread(section, upd)

sanitizeSection(section) ==
  IF IsNullish(section) THEN Threw
  ELSE IF Get(section, "type") = Str("single_screen")
       THEN sanitizeSingleScreenSection(section)
       ELSE section

\* sanitizePageContent(page)
sanitizePageContent(page) ==
  IF IsNullish(page) THEN Threw
  ELSE LET secs == Get(page, "sections")
       IN IF secs.k # "array" THEN Threw
          ELSE LET m == MapOrThrow(sanitizeSection, secs.a)
               IN IF m = Threw THEN Threw
                  ELSE Spread(OwnProps(page), [sections |-> m])

\* Result of a function that returns a list of error strings or throws
Ok(errs) == [threw |-> FALSE, errors |-> errs]

ThrewR == [threw |-> TRUE, errors |-> <<>>]

\* the outcomes of consecutive statements: the first throw wins, else the
\* error lists are appended in order
Combine(rs) ==
  IF \E i \in 1..Len(rs) : rs[i].threw THEN ThrewR
  ELSE Ok(Flatten([i \in 1..Len(rs) |-> rs[i].errors]))

\* v?.forEach((x, i) => Op(x, i)): skipped for a nullish v, a TypeError for a
\* value that is no array
OptForEach(v, Op(_, _)) ==
  CASE IsNullish(v) -> Ok(<<>>)
    [] v.k = "array" -> Combine([i \in 1..Len(v.a) |-> Op(v.a[i], i - 1)])
    [] OTHER -> ThrewR

If(cond, msg) == Ok(IF cond THEN <<msg>> ELSE <<>>)

\* `${v}` for the values that occur as section.type
Text(v) ==
  CASE v.k = "string" -> v.s
    [] v.k = "number" -> ToString(v.n)
    [] v.k = "undefined" -> "undefined"
    [] v.k = "null" -> "null"
    [] OTHER -> "[object Object]"

\* VALIDATION_RULES[section.type] is truthy
HasRules(type) ==
  Text(type) \in (DOMAIN VALIDATION_RULES) \cup ObjectPrototypeKeys

validateFeature(feature, i) ==
  IF IsNullish(feature) THEN ThrewR
  ELSE If(~Truthy(Get(feature, "title")) \/ ~Truthy(Get(feature, "description")),
          "Feature " \o ToString(i) \o ": Missing title or description")

\* !arr || arr.length < min, then arr && arr.length > max
CountErrors(arr, min, max, few, many) ==
  Combine(<< If(~Truthy(arr) \/ LengthLT(arr, min), few \o ToString(min) \o ")"),
             If(Truthy(arr) /\ LengthGT(arr, max), many \o ToString(max) \o ")") >>)

validateInsight(insight, i) ==
  IF IsNullish(insight) THEN ThrewR
  ELSE LET text == IF Truthy(Get(insight, "text")) THEN Get(insight, "text") ELSE insight
           max == VALIDATION_RULES.single_screen.insightText.maxLength
       IN If(Truthy(text) /\ LengthGT(text, max),
             "Insight " \o ToString(i) \o " too long (max " \o ToString(max)
               \o " chars, got " \o Text(JsLength(text)) \o ")")

validateStat(stat, i) ==
  IF IsNullish(stat) THEN ThrewR
  ELSE LET rules == VALIDATION_RULES.single_screen
       IN Combine(<<
            If(Truthy(Get(stat, "value"))
                 /\ LengthGT(Get(stat, "value"), rules.statValue.maxLength),
               "Stat " \o ToString(i) \o " value too long (max "
                 \o ToString(rules.statValue.maxLength) \o " chars)"),
            If(Truthy(Get(stat, "label"))
                 /\ LengthGT(Get(stat, "label"), rules.statLabel.maxLength),
               "Stat " \o ToString(i) \o " label too long (max "
                 \o ToString(rules.statLabel.maxLength) \o " chars)") >>)

validateStep(step, i) ==
  LET max == VALIDATION_RULES.single_screen.howItWorksStep.maxLength
  IN If(Truthy(step) /\ LengthGT(step, max),
        "\"How it works\" step " \o ToString(i) \o " too long (max "
          \o ToString(max) \o " chars)")

validateCta(cta, i) ==
  IF IsNullish(cta) THEN ThrewR
  ELSE LET max == VALIDATION_RULES.single_screen.ctaText.maxLength
       IN If(Truthy(Get(cta, "text")) /\ LengthGT(Get(cta, "text"), max),
             "CTA " \o ToString(i) \o " text too long (max " \o ToString(max) \o " chars)")

\* how-it-works block: if (howItWorks) { length check; howItWorks.forEach(...) }
validateHowItWorks(hiw) ==
  IF ~Truthy(hiw) THEN Ok(<<>>)
  ELSE LET max == VALIDATION_RULES.single_screen.maxHowItWorksSteps
       IN Combine(<< If(LengthGT(hiw, max),
                        "Too many \"how it works\" steps (max " \o ToString(max) \o ")"),
                     IF hiw.k = "array" THEN OptForEach(hiw, validateStep) ELSE ThrewR >>)

validateVisualContent(vc) ==
  IF ~Truthy(vc) THEN Ok(<<>>)
  ELSE LET rules == VALIDATION_RULES.single_screen
           c == Get(vc, "content")
           h == Get(vc, "highlight")
       IN Combine(<<
            If(Truthy(c) /\ LengthGT(c, rules.visualContentText.maxLength),
               "Visual content text too long (max "
                 \o ToString(rules.visualContentText.maxLength)
                 \o " chars, got " \o Text(JsLength(c)) \o ")"),
            If(Truthy(h) /\ LengthGT(h, rules.visualContentHighlight.maxLength),
               "Visual content highlight too long (max "
                 \o ToString(rules.visualContentHighlight.maxLength) \o " chars)") >>)

validateSingleScreen(ss) ==
  LET rules == VALIDATION_RULES.single_screen
      hl == Get(ss, "headline")
      st == Get(ss, "subtitle")
  IN Combine(<<
       If(~Truthy(hl) \/ ~Truthy(st), "Missing headline or subtitle"),
       If(Truthy(hl) /\ LengthGT(hl, rules.headline.maxLength),
          "Headline too long (max " \o ToString(rules.headline.maxLength)
            \o " chars, got " \o Text(JsLength(hl)) \o ")"),
       If(Truthy(st) /\ LengthGT(st, rules.subtitle.maxLength),
          "Subtitle too long (max " \o ToString(rules.subtitle.maxLength)
            \o " chars, got " \o Text(JsLength(st)) \o ")"),
       CountErrors(Get(ss, "insights"), rules.minInsights, rules.maxInsights,
                   "Too few insights (min ", "Too many insights (max "),
       OptForEach(Get(ss, "insights"), validateInsight),
       CountErrors(Get(ss, "stats"), rules.minStats, rules.maxStats,
                   "Too few stats (min ", "Too many stats (max "),
       OptForEach(Get(ss, "stats"), validateStat),
       validateVisualContent(Get(ss, "visualContent")),
       validateHowItWorks(Get(ss, "howItWorks")),
       CountErrors(Get(ss, "ctas"), rules.minCTAs, rules.maxCTAs,
                   "Too few CTAs (min ", "Too many CTAs (max "),
       OptForEach(Get(ss, "ctas"), validateCta) >>)

validateHero(section) ==
  LET rules == VALIDATION_RULES.hero
      hl == Get(section, "headline")
  IN Combine(<<
       If(~Truthy(hl) \/ LengthLT(hl, rules.headline.minLength),
          "Headline too short (min " \o ToString(rules.headline.minLength) \o " chars)"),
       If(Truthy(hl) /\ LengthGT(hl, rules.headline.maxLength),
          "Headline too long (max " \o ToString(rules.headline.maxLength) \o " chars)") >>)

\* validateSection(section)
validateSection(section) ==
  IF IsNullish(section) THEN ThrewR
  ELSE LET type == Get(section, "type")
           R == VALIDATION_RULES
       IN IF ~HasRules(type)
          THEN Ok(<<"Unknown section type: " \o Text(type)>>)
          ELSE CASE type = Str("hero") -> validateHero(section)
                 [] type = Str("feature_grid") ->
                      Combine(<< CountErrors(Get(section, "features"),
                                             R.feature_grid.minFeatures,
                                             R.feature_grid.maxFeatures,
                                             "Too few features (min ",
                                             "Too many features (max "),
                                 OptForEach(Get(section, "features"), validateFeature) >>)
                 [] type = Str("cta") ->
                      CountErrors(Get(section, "buttons"), R.cta.minButtons,
                                  R.cta.maxButtons,
                                  "Too few buttons (min ", "Too many buttons (max ")
                 [] type = Str("faq") ->
                      CountErrors(Get(section, "items"), R.faq.minItems, R.faq.maxItems,
                                  "Too few FAQ items (min ", "Too many FAQ items (max ")
                 [] type = Str("steps") ->
                      CountErrors(Get(section, "steps"), R.steps.minSteps, R.steps.maxSteps,
                                  "Too few steps (min ", "Too many steps (max ")
                 [] type = Str("metrics") ->
                      CountErrors(Get(section, "metrics"), R.metrics.minMetrics,
                                  R.metrics.maxMetrics,
                                  "Too few metrics (min ", "Too many metrics (max ")
                 [] type = Str("single_screen") -> validateSingleScreen(section)
                 [] OTHER -> Ok(<<>>)

\* one iteration of page.sections.forEach in validatePageSpec
validateSectionAt(section, index) ==
  LET r == validateSection(section)
  IN IF r.threw THEN ThrewR
     ELSE Ok([j \in 1..Len(r.errors) |->
                "Section " \o ToString(index) \o " (" \o Text(Get(section, "type"))
                  \o "): " \o r.errors[j]])

\* validatePageSpec(page)
validatePageSpec(page) ==
  IF IsNullish(page) THEN ThrewR
  ELSE IF ~Truthy(Get(page, "type")) \/ ~Truthy(Get(page, "title"))
            \/ ~Truthy(Get(page, "description"))
       THEN Ok(<<"Missing required fields: type, title, or description">>)
       ELSE LET secs == Get(page, "sections")
            IN IF ~Truthy(secs) \/ secs.k # "array" \/ Len(secs.a) = 0
               THEN Ok(<<"Page must contain at least one section">>)
               ELSE OptForEach(secs, validateSectionAt)

(***************************************************************************)
(* intent-classifier.ts                                                     *)
(***************************************************************************)
\* Regular expressions, as syntax trees.  Ends(r, s, i) is the set of offsets
\* j such that r matches s from offset i up to offset j, so r.test(s) holds
\* iff some start offset has a non-empty set (backtracking explores the same
\* alternatives).
L(s) == [t |-> "lit", s |-> s]

A(rs) == [t |-> "alt", rs |-> rs]

C(rs) == [t |-> "cat", rs |-> rs]

O(r) == [t |-> "opt", r |-> r]

BOL == [t |-> "bol"]

WB == [t |-> "wb"]

WS == [t |-> "ws"]

WSP == [t |-> "wsp"]

DS == [t |-> "dotstar"]

\* \w  (the message is lower-cased before matching)
WordChars ==
  {"a", "b", "c", "d", "e", "f", "g", "h", "i", "j", "k", "l", "m", "n", "o", "p",
   "q", "r", "s", "t", "u", "v", "w", "x", "y", "z", "A", "B", "C", "D", "E", "F",
   "G", "H", "I", "J", "K", "L", "M", "N", "O", "P", "Q", "R", "S", "T", "U", "V",
   "W", "X", "Y", "Z", "0", "1", "2", "3", "4", "5", "6", "7", "8", "9", "_"}

\* \s
SpaceChars == {" ", "\t", "\n", "\r", "\f"}

CharAt(s, i) == SubSeq(s, i, i)

IsWordAt(s, i) == i >= 1 /\ i <= Len(s) /\ CharAt(s, i) \in WordChars

IsSpaceAt(s, i) == i >= 1 /\ i <= Len(s) /\ CharAt(s, i) \in SpaceChars

RECURSIVE Ends(_, _, _)
RECURSIVE CatEnds(_, _, _)
Ends(r, s, i) ==
  CASE r.t = "lit" ->
         IF i + Len(r.s) <= Len(s) /\ SubSeq(s, i + 1, i + Len(r.s)) = r.s
         THEN {i + Len(r.s)} ELSE {}
    [] r.t = "alt" -> UNION {Ends(r.rs[n], s, i) : n \in 1..Len(r.rs)}
    [] r.t = "cat" -> CatEnds(r.rs, s, {i})
    [] r.t = "opt" -> {i} \cup Ends(r.r, s, i)
    [] r.t = "bol" -> IF i = 0 THEN {i} ELSE {}
    [] r.t = "wb" -> IF IsWordAt(s, i) # IsWordAt(s, i + 1) THEN {i} ELSE {}
    [] r.t = "ws" -> IF IsSpaceAt(s, i + 1) THEN {i + 1} ELSE {}
    [] r.t = "wsp" ->
         {j \in (i + 1)..Len(s) : \A n \in (i + 1)..j : IsSpaceAt(s, n)}
    [] r.t = "dotstar" ->
         {j \in i..Len(s) : \A n \in (i + 1)..j : CharAt(s, n) \notin {"\n", "\r"}}

CatEnds(rs, s, starts) ==
  IF rs = <<>> \/ starts = {} THEN starts
  ELSE CatEnds(Tail(rs), s, UNION {Ends(Head(rs), s, i) : i \in starts})

\* pattern.test(s)
Test(r, s) == \E i \in 0..Len(s) : Ends(r, s, i) # {}

\* s.includes(sub)
Includes(s, sub) ==
  \E i \in 0..(Len(s) - Len(sub)) : SubSeq(s, i + 1, i + Len(sub)) = sub

UpperOf ==
  [a |-> "A", b |-> "B", c |-> "C", d |-> "D", e |-> "E", f |-> "F", g |-> "G",
   h |-> "H", i |-> "I", j |-> "J", k |-> "K", l |-> "L", m |-> "M", n |-> "N",
   o |-> "O", p |-> "P", q |-> "Q", r |-> "R", s |-> "S", t |-> "T", u |-> "U",
   v |-> "V", w |-> "W", x |-> "X", y |-> "Y", z |-> "Z"]

LowerChar(c) ==
  IF \E l \in DOMAIN UpperOf : UpperOf[l] = c
  THEN CHOOSE l \in DOMAIN UpperOf : UpperOf[l] = c
  ELSE c

RECURSIVE ToLowerCase(_)
ToLowerCase(s) ==
  IF Len(s) = 0 THEN "" ELSE LowerChar(CharAt(s, 1)) \o ToLowerCase(SubSeq(s, 2, Len(s)))

\* s.trim()
Trim(s) ==
  IF \A n \in 1..Len(s) : IsSpaceAt(s, n) THEN ""
  ELSE LET first == CHOOSE n \in 1..Len(s) :
                      ~IsSpaceAt(s, n) /\ \A m \in 1..(n - 1) : IsSpaceAt(s, m)
           last == CHOOSE n \in 1..Len(s) :
                     ~IsSpaceAt(s, n) /\ \A m \in (n + 1)..Len(s) : IsSpaceAt(s, m)
       IN SubSeq(s, first, last)

\* the number of words of s: its maximal runs of characters that are no white
\* space
WordCount(s) ==
  Cardinality({n \in 1..Len(s) : ~IsSpaceAt(s, n) /\ (n = 1 \/ IsSpaceAt(s, n - 1))})

\* a word count in place of the count of the parts between single spaces
SplitWordsLength(s) == WordCount(s)

\* s.split(' ').length
SplitSpaceLength(s) == Cardinality({n \in 1..Len(s) : CharAt(s, n) = " "}) + 1

\* the keys of INTENT_PATTERNS / scores, in declaration (= iteration) order
IntentOrder ==
  <<"product_inquiry", "feature_question", "comparison", "stats_roi",
    "implementation", "use_case", "off_topic">>

INTENT_PATTERNS ==
  [ product_inquiry |->
      [ keywords |-> <<"what is", "tell me about", "explain", "bevgenie", "product",
                       "platform", "overview", "about">>,
        phrases |-> <<"what is bevgenie", "tell me about bevgenie",
                      "what does bevgenie do", "bevgenie overview", "what can bevgenie",
                      "describe bevgenie">>,
        questionPatterns |-> <<
          C(<<BOL, L("what "), A(<<L("is"), L("does"), L("can")>>), L(" "),
              O(A(<<L("this"), L("the"), L("your")>>)), O(WS),
              A(<<L("product"), L("platform"), L("solution"), L("tool")>>)>>),
          C(<<BOL, A(<<L("tell"), L("explain")>>), DS,
              A(<<L("about"), L("bevgenie"), L("platform"), L("product")>>)>>),
          C(<<BOL, A(<<L("what"), L("who")>>), L(" "), A(<<L("are"), L("is")>>), L(" "),
              A(<<L("you"), L("bevgenie")>>)>>) >> ],
    feature_question |->
      [ keywords |-> <<"feature", "capability", "function", "can it", "does it have",
                       "support", "integrate", "analytics">>,
        phrases |-> <<"what features", "does it have", "can it do", "what capabilities",
                      "how does it work", "what can it do", "features available",
                      "functionality">>,
        questionPatterns |-> <<
          C(<<BOL, L("what "), A(<<L("features"), L("capabilities"), L("functions")>>)>>),
          C(<<BOL, A(<<L("does it"), L("can it"), L("do you")>>), L(" "),
              A(<<L("have"), L("support"), L("offer"), L("provide")>>)>>),
          C(<<BOL, A(<<L("how"), L("what")>>), L(" "), A(<<L("does"), L("do")>>), L(" "),
              O(A(<<L("it"), L("the"), L("your")>>)), O(WS),
              A(<<C(<<L("feature"), O(L("s"))>>), L("work")>>)>>),
          C(<<BOL, A(<<L("list"), L("show"), L("tell")>>), DS,
              A(<<L("features"), L("capabilities")>>)>>) >> ],
    comparison |->
      [ keywords |-> <<"vs", "versus", "compare", "comparison", "competitor",
                       "alternative", "difference", "better than", "why choose">>,
        phrases |-> <<"bevgenie vs", "compare to", "compared to", "better than",
                      "why choose bevgenie", "advantages over", "difference between",
                      "alternative to">>,
        questionPatterns |-> <<
          A(<<C(<<WB, L("vs"), WB>>), C(<<WB, L("versus"), WB>>)>>),
          C(<<WB, L("compare"), O(L("d")), WSP,
              A(<<L("to"), L("with"), L("against")>>)>>),
          C(<<WB, A(<<L("better"), L("different")>>), WSP,
              A(<<L("than"), L("from")>>)>>),
          C(<<WB, A(<<L("why"), L("how")>>), WSP,
              A(<<L("choose"), L("use"), L("prefer")>>)>>),
          C(<<WB, L("alternative"), O(L("s")), WSP, L("to")>>) >> ],
    stats_roi |->
      [ keywords |-> <<"roi", "results", "metrics", "stats", "statistics", "impact",
                       "performance", "outcomes", "savings", "revenue", "growth">>,
        phrases |-> <<"what results", "roi calculator", "show me stats", "what impact",
                      "how much save", "revenue increase", "proven results",
                      "customer success">>,
        questionPatterns |-> <<
          C(<<WB, A(<<L("roi"), L("return on investment")>>)>>),
          C(<<WB, A(<<L("results"), L("metrics"), L("stats"), L("statistics"),
                      L("outcomes")>>), WB>>),
          C(<<WB, A(<<L("how much"), L("what")>>), DS,
              A(<<L("save"), L("increase"), L("improve"), L("gain")>>)>>),
          C(<<WB, A(<<L("impact"), L("performance"), L("growth"), L("revenue")>>)>>),
          C(<<WB, L("proven"), WSP, A(<<L("results"), L("success")>>)>>) >> ],
    implementation |->
      [ keywords |-> <<"get started", "how to", "implement", "setup", "onboard",
                       "launch", "install", "deploy", "integration", "timeline">>,
        phrases |-> <<"get started", "how to start", "implementation process",
                      "setup guide", "onboarding", "launch timeline",
                      "how long to implement", "integration steps">>,
        questionPatterns |-> <<
          C(<<BOL, L("how "), A(<<L("do"), L("can")>>), L(" "), A(<<L("i"), L("we")>>), DS,
              A(<<L("get started"), L("start"), L("begin"), L("implement"), L("setup"),
                  L("onboard")>>)>>),
          C(<<WB, A(<<L("implementation"), L("setup"), L("onboarding"),
                      L("integration")>>), WSP,
              A(<<L("process"), L("steps"), L("guide"), L("timeline")>>)>>),
          C(<<WB, L("how long"), DS, A(<<L("to"), L("does it take")>>), DS,
              A(<<L("implement"), L("setup"), L("launch")>>)>>),
          C(<<BOL, A(<<L("what"), L("show")>>), DS, A(<<L("steps"), L("process")>>), DS,
              A(<<L("get started"), L("implement")>>)>>) >> ],
    use_case |->
      [ keywords |-> <<"can you help", "use case", "scenario", "for my", "my business",
                       "my team", "problem", "challenge", "need", "looking for">>,
        phrases |-> <<"can you help with", "does it work for", "use case for",
                      "my business", "my problem", "i need", "looking for solution",
                      "solve my">>,
        questionPatterns |-> <<
          C(<<BOL, A(<<L("can"), L("could"), L("will")>>), DS,
              A(<<L("help"), L("work"), L("solve"), L("address")>>)>>),
          C(<<WB, A(<<L("my"), L("our")>>), WSP,
              A(<<L("business"), L("team"), L("company"), L("problem"), L("challenge"),
                  L("need")>>)>>),
          C(<<WB, L("use case"), DS, L("for"), WB>>),
          C(<<WB, A(<<L("looking for"), L("need"), L("want")>>), DS,
              A(<<L("solution"), L("help"), L("tool")>>)>>),
          C(<<WB, A(<<L("does it"), L("can it")>>), DS, L("work"), DS, L("for"), WB>>) >> ],
    off_topic |->
      [ keywords |-> <<"weather", "recipe", "movie", "sports", "politics", "joke", "game",
                       "music", "news">>,
        phrases |-> <<"tell me a joke", "what's the weather", "latest news",
                      "movie recommendation", "recipe for", "sports score">>,
        questionPatterns |-> <<
          C(<<BOL, A(<<L("tell"), L("give"), L("show")>>), DS,
              A(<<L("joke"), L("story"), L("game")>>)>>),
          C(<<WB, A(<<L("weather"), L("recipe"), L("movie"), L("sports"), L("politics"),
                      L("music"), L("news")>>), WB>>),
          C(<<BOL, A(<<L("what"), L("who"), L("how")>>), DS,
              A(<<L("not related to beverage"), L("unrelated")>>)>>) >> ] ]

\* xs.filter(Keep), as a sequence in the order of xs
RECURSIVE FilterIdx(_, _, _)
FilterIdx(n, keep, i) ==
  IF i > n THEN <<>>
  ELSE (IF i \in keep THEN <<i>> ELSE <<>>) \o FilterIdx(n, keep, i + 1)

\* the identifiers pushed for one intent by the scoring loop: keywords, then
\* phrases, then question patterns, each in table order
MatchesOf(intent, msg) ==
  LET P == INTENT_PATTERNS[intent]
      kw == FilterIdx(Len(P.keywords),
                      {n \in 1..Len(P.keywords) : Includes(msg, P.keywords[n])}, 1)
      ph == FilterIdx(Len(P.phrases),
                      {n \in 1..Len(P.phrases) : Includes(msg, P.phrases[n])}, 1)
      qp == FilterIdx(Len(P.questionPatterns),
                      {n \in 1..Len(P.questionPatterns) : Test(P.questionPatterns[n], msg)},
                      1)
  IN [ keywords |-> [n \in 1..Len(kw) |-> "keyword:" \o P.keywords[kw[n]]],
       phrases |-> [n \in 1..Len(ph) |-> "phrase:" \o P.phrases[ph[n]]],
       patterns |-> [n \in 1..Len(qp) |-> "pattern:" \o ToString(qp[n] - 1)] ]

\* a scoring that would give nothing for a phrase (fault injection for C11)
ScoreOfNoPhrases(m) == Len(m.keywords) + 5 * Len(m.patterns)

\* a scoring that would give one point for every match
ScoreOfFlat(m) == Len(m.keywords) + Len(m.phrases) + Len(m.patterns)

\* scores[intent] after the scoring loop: 1 per keyword, 3 per phrase, 5 per
\* question pattern
ScoreOf(m) == Len(m.keywords) + 3 * Len(m.phrases) + 5 * Len(m.patterns)

\* a scan that would let a later intent with an equal score win (fault
\* injection for C9)
RECURSIVE FindTopLast(_, _)
FindTopLast(scores, n) ==
  IF n = 0 THEN [maxScore |-> -1, topIntent |-> "product_inquiry"]
  ELSE LET prev == FindTopLast(scores, n - 1)
       IN IF scores[IntentOrder[n]] >= prev.maxScore
          THEN [maxScore |-> scores[IntentOrder[n]], topIntent |-> IntentOrder[n]]
          ELSE prev

\* for (const [intent, score] of Object.entries(scores)) if (score > maxScore) ...
\* : the state <<maxScore, topIntent>> after the first n entries
RECURSIVE FindTop(_, _)
FindTop(scores, n) ==
  IF n = 0 THEN [maxScore |-> -1, topIntent |-> "product_inquiry"]
  ELSE LET prev == FindTop(scores, n - 1)
       IN IF scores[IntentOrder[n]] > prev.maxScore
          THEN [maxScore |-> scores[IntentOrder[n]], topIntent |-> IntentOrder[n]]
          ELSE prev

RECURSIVE SumScores(_, _)
SumScores(scores, n) ==
  IF n = 0 THEN 0 ELSE scores[IntentOrder[n]] + SumScores(scores, n - 1)

\* the ratio without Math.min(1.0, ...) (fault injection for C10)
ConfidenceUnclamped(maxScore, totalScore) ==
  IF totalScore > 0 THEN [num |-> 10 * maxScore, den |-> 6 * totalScore]
  ELSE [num |-> 3, den |-> 10]

\* a confidence that is full from half of the total on
ConfidenceHalf(maxScore, totalScore) ==
  IF totalScore > 0
  THEN IF 10 * maxScore >= 5 * totalScore
       THEN [num |-> 1, den |-> 1]
       ELSE [num |-> 10 * maxScore, den |-> 5 * totalScore]
  ELSE [num |-> 3, den |-> 10]

\* Math.min(1.0, maxScore / (totalScore * 0.6)) or 0.3, as the exact fraction
\* num/den (0.6 = 6/10)
Confidence(maxScore, totalScore) ==
  IF totalScore > 0
  THEN IF 10 * maxScore >= 6 * totalScore
       THEN [num |-> 1, den |-> 1]
       ELSE [num |-> 10 * maxScore, den |-> 6 * totalScore]
  ELSE [num |-> 3, den |-> 10]

\* classifyIntent(userMessage), userMessage a string
classifyIntent(userMessage) ==
  LET normalizedMessage == Trim(ToLowerCase(userMessage))
      matched == [it \in DOMAIN INTENT_PATTERNS |-> MatchesOf(it, normalizedMessage)]
      scores == [it \in DOMAIN INTENT_PATTERNS |-> ScoreOf(matched[it])]
      listed == [it \in DOMAIN INTENT_PATTERNS |->
                   matched[it].keywords \o matched[it].phrases \o matched[it].patterns]
      top == FindTop(scores, Len(IntentOrder))
      edge ==
        IF top.maxScore # 0 THEN [intent |-> top.topIntent, maxScore |-> top.maxScore,
                                  rule |-> <<>>]
        ELSE IF Len(normalizedMessage) < 20 /\ Includes(normalizedMessage, "bevgenie")
        THEN [intent |-> "product_inquiry", maxScore |-> 2,
              rule |-> <<"rule:short_bevgenie_mention">>]
        ELSE IF Includes(normalizedMessage, "?") /\ SplitSpaceLength(normalizedMessage) < 10
        THEN [intent |-> "feature_question", maxScore |-> 1,
              rule |-> <<"rule:short_question">>]
        ELSE [intent |-> "use_case", maxScore |-> 1, rule |-> <<"rule:generic_query">>]
      totalScore == SumScores(scores, Len(IntentOrder))
  IN [ intent |-> edge.intent,
       confidence |-> Confidence(edge.maxScore, totalScore),
       matchedPatterns |-> listed[edge.intent] \o edge.rule,
       scores |-> scores,
       maxScore |-> edge.maxScore ]

(***************************************************************************)
(* Documents the generation backend (or the template engine) may hand back: *)
(* the inputs of the orchestrator.                                          *)
(***************************************************************************)
Obj(fields) == Spread([k |-> "object"], fields)

PageOf(sections) ==
  [k |-> "object", type |-> Str("solution_brief"),
   title |-> Str("A Solution For Brewers Everywhere"),
   description |-> Str(Rep("d", 60)), sections |-> sections]

HeroOf(n) == [k |-> "object", type |-> Str("hero"), headline |-> Str(Rep("h", n))]

FeatureOf(t) ==
  [k |-> "object", title |-> Str(t), description |-> Str(Rep("f", 20))]

SingleScreenOf(descLen) ==
  [k |-> "object", type |-> Str("single_screen"),
   headline |-> Str(Rep("h", 30)), subtitle |-> Str(Rep("s", 20)),
   insights |-> Arr([i \in 1..3 |-> [k |-> "object", text |-> Str(Rep("i", 60))]]),
   stats |-> Arr([i \in 1..3 |->
                    [k |-> "object", value |-> Str("47%"), label |-> Str("Faster Response"),
                     description |-> Str(Rep("x", descLen))]]),
   howItWorks |-> Arr([i \in 1..3 |-> Str(Rep("w", 30))]),
   ctas |-> Arr([i \in 1..2 |-> [k |-> "object", text |-> Str("Talk to us")]])]

\* a hero page that validates
PageValidHero == PageOf(Arr(<<HeroOf(40)>>))

\* a hero page whose headline is below the minimum
PageShortHero == PageOf(Arr(<<HeroOf(5)>>))

\* hero + feature grid, validates
PageFeatures ==
  PageOf(Arr(<<HeroOf(40),
               [k |-> "object", type |-> Str("feature_grid"),
                features |-> Arr(<<FeatureOf("Performance Analytics"),
                                   FeatureOf("Competitive Intelligence")>>)]>>))

\* a JSON object with no sections member
PageNoSections ==
  [k |-> "object", type |-> Str("solution_brief"), title |-> Str("A title"),
   description |-> Str("A description")]

\* a sections array holding null
PageNullSection == PageOf(Arr(<<Null>>))

\* a single_screen page that validates; its stat descriptions exceed the 50
\* characters the sanitizer clips them to
PageSingleScreen == PageOf(Arr(<<SingleScreenOf(60)>>))

GenPages ==
  {PageValidHero, PageShortHero, PageFeatures, PageNoSections, PageNullSection,
   PageSingleScreen}

\* the documents drawn when several pipeline invocations run side by side
BatchPages == {PageValidHero, PageShortHero}

(***************************************************************************)
(* State                                                                    *)
(***************************************************************************)
VARIABLES
  variant,    \* which generatePageSpec is deployed: "template" or "intent"
  pool,       \* the documents the backend / template engine may produce
  reqs,       \* generatePagesBatch's input: the requests, in input order
  calls,      \* one generatePageSpec invocation per request
  batch,      \* the promise generatePagesBatch returned
  trackLog,   \* the Content-Memory Tracker: the trackGeneratedContent calls
  stream,     \* one run of the SSE endpoint's ReadableStream start(controller)
  chatMessage, \* the message handed to classifyIntent
  classification, \* what classifyIntent returned for it (NotClassified before)
  doc,        \* the document handed to validatePageSpec and sanitizePageContent
  validation, \* what validatePageSpec(doc) did (NotRun before the call)
  sanitized,  \* what sanitizePageContent(doc) did (NotRun before the call)
  resanitized,  \* what sanitizePageContent did on the sanitized document
  revalidation, \* what validatePageSpec did on the sanitized document
  response,   \* the content blocks of the backend's response to one attempt
  rawText,    \* the text of its first text block (NotRun before it is looked up)
  parsed,     \* what attemptPageGeneration made of that text (NotRun before)
  sections,   \* the renderer's sections: each one's layout?.requestedHeightPercent
  heightMap,  \* what getSectionHeightsFromLLM(sections) did (NotRun before)
  requests,   \* the handleSendMessage invocations of the client HomePage
  isGenerating,    \* HomePage state
  loadingProgress, \* HomePage state
  currentQuery,    \* HomePage state
  pageHistory,     \* HomePage state: the generated pages, oldest first
  chatMessages     \* HomePage state: the chat, oldest first

genVars == <<variant, pool, reqs, calls, batch, trackLog>>

docVars == <<doc, validation, sanitized, resanitized, revalidation>>

parseVars == <<response, rawText, parsed>>

renderVars == <<sections, heightMap>>

clientVars ==
  <<requests, isGenerating, loadingProgress, currentQuery, pageHistory, chatMessages>>

vars == <<genVars, stream, chatMessage, classification, docVars, parseVars, renderVars,
          clientVars>>

\* the values of the parts that a specification leaves out
NoStream == [pc |-> "idle"]

NotClassified == [intent |-> "none"]

NotRun == [k |-> "not run"]

NoDoc == [k |-> "no document"]

NoResponse == [k |-> "no response"]

(***************************************************************************)
(* page-generator.ts: generatePageSpec                                      *)
(***************************************************************************)
maxRetries == 2

UserIntents ==
  {"product_inquiry", "feature_question", "comparison", "stats_roi",
   "implementation", "use_case", "off_topic"}

\* a request as a caller may build it
Requests ==
  [ userMessage : {Str("how do you track sales?"), Undefined},
    sessionId : {Str("session-1"), Undefined},
    userIntent : {Undefined, Str("comparison")} ]

BatchRequests ==
  [ userMessage : {Str("how do you track sales?"), Undefined},
    sessionId : {Undefined},
    userIntent : {Undefined} ]

\* what awaiting generateFromTemplate (after the dynamic import) may yield
TemplateOutcomes ==
  {[kind |-> "throws"], [kind |-> "failed"], [kind |-> "nopage"]}
    \cup {[kind |-> "page", page |-> p] : p \in pool}

\* what awaiting attemptPageGeneration may yield: the backend call rejects or
\* has no text block, the text holds no parsable JSON object, or a document
AttemptOutcomes ==
  {[kind |-> "transport"], [kind |-> "parse"]}
    \cup {[kind |-> "page", page |-> p] : p \in pool}

AttemptErrorMessage(o) ==
  IF o.kind = "transport" THEN "Connection error."
  ELSE "Failed to parse page specification: No JSON found in response"

IntentAttemptErrorMessage(o) ==
  IF o.kind = "transport" THEN "Connection error."
  ELSE "Unexpected token in JSON"

Join(errs) ==
  LET RECURSIVE J(_)
      J(e) == IF e = <<>> THEN ""
              ELSE IF Len(e) = 1 THEN e[1] ELSE e[1] \o ", " \o J(Tail(e))
  IN J(errs)

\* how one settled attempt is classified in a call's history
OutcomeKind(o) ==
  IF o.kind # "page" THEN o.kind
  ELSE LET v == validatePageSpec(o.page)
       IN IF v.threw THEN "threw" ELSE IF v.errors = <<>> THEN "valid" ELSE "invalid"

\* A generatePageSpec invocation.  pc, request and retryCount are the
\* function's own state; attempts (backend calls issued by the full
\* generation), history (how each settled), parsed (the last document handed
\* back), tracked (trackGeneratedContent calls made) and template (how
\* generateFromTemplate settled) record what it did.
NewCall(req) ==
  [ pc |-> "init", request |-> req, retryCount |-> 0, attempts |-> 0,
    history |-> <<>>, parsed |-> Undefined, result |-> Undefined, tracked |-> 0,
    template |-> "not settled" ]

\* a generator that would sanitize the page before returning it (fault
\* injection for C5: the code returns the page as parsed)
SuccessSanitized(page, retryCount) ==
  [k |-> "object", success |-> TRUE, page |-> sanitizePageContent(page),
   retryCount |-> retryCount]

Success(page, retryCount) ==
  [k |-> "object", success |-> TRUE, page |-> page, retryCount |-> retryCount]

Failure(error, retryCount) ==
  [k |-> "object", success |-> FALSE, error |-> Str(error), retryCount |-> retryCount]

Return(c, result) == [c EXCEPT !.pc = "returned", !.result = result]

\* a loop that issues the next backend call together with a spare one,
\* without awaiting the first
EnterLoopEager(c) ==
  IF c.retryCount <= maxRetries
  THEN [c EXCEPT !.pc = "awaitAttempt", !.attempts = @ + 2]
  ELSE Return(c, Failure("Max retries exceeded", c.retryCount))

\* while (retryCount <= maxRetries) { try { page = await attemptPageGeneration(...)
\* : the loop test and the issue of the next backend call
EnterLoop(c) ==
  IF c.retryCount <= maxRetries
  THEN [c EXCEPT !.pc = "awaitAttempt", !.attempts = @ + 1]
  ELSE Return(c, Failure("Max retries exceeded", c.retryCount))

\* generatePageSpec (template + retry), up to the first await
TemplateStart(c) == [c EXCEPT !.pc = "awaitTemplate"]

\* a template path that charges its own failure to the retry budget
TemplateSettledBudgetSpent(c, o) ==
  LET v == validatePageSpec(o.page)
  IN IF o.kind = "page" /\ Truthy(o.page) /\ ~v.threw /\ v.errors = <<>>
     THEN Return([c EXCEPT !.parsed = o.page], Success(o.page, 0))
     ELSE EnterLoop([c EXCEPT !.retryCount = 1])

\* the continuation after `await generateFromTemplate(...)`
TemplateSettled(c, o) ==
  LET v == validatePageSpec(o.page)
  IN IF o.kind = "page" /\ Truthy(o.page) /\ ~v.threw /\ v.errors = <<>>
     THEN Return([c EXCEPT !.parsed = o.page], Success(o.page, 0))
     ELSE EnterLoop([c EXCEPT !.retryCount = 0])

\* catch (error) { if (retryCount < maxRetries) { retryCount++; continue } return ... }
CatchAttempt(c, message) ==
  IF c.retryCount < maxRetries
  THEN EnterLoop([c EXCEPT !.retryCount = @ + 1])
  ELSE Return(c, Failure(message, c.retryCount))

\* a retry that repeats the request without the validation feedback
FeedbackMessageNone(userMessage, errors) == Str(Text(userMessage))

FeedbackMessage(userMessage, errors) ==
  Str(Text(userMessage) \o "\n\n[Previous attempt had validation issues: "
        \o Join(errors) \o ". Please regenerate with these corrections.]")

\* the continuation after `await attemptPageGeneration(request, retryCount)`
TemplateAttemptSettled(c, o) ==
  IF o.kind # "page" THEN CatchAttempt(c, AttemptErrorMessage(o))
  ELSE LET v == validatePageSpec(o.page)
           d == [c EXCEPT !.parsed = o.page]
       IN IF v.threw
          THEN CatchAttempt(d, "Cannot read properties of null (reading 'type')")
          ELSE IF v.errors = <<>>
          THEN Return(d, Success(o.page, c.retryCount))
          ELSE IF c.retryCount < maxRetries
          THEN EnterLoop([d EXCEPT
                 !.retryCount = @ + 1,
                 !.request.userMessage = FeedbackMessage(@, v.errors)])
          ELSE Return(d, Failure("Validation failed after " \o ToString(maxRetries)
                                   \o " retries: " \o Join(v.errors), c.retryCount))

(***************************************************************************)
(* page-generator.ts: generatePageSpec, intent-based variant                *)
(***************************************************************************)
\* getLayoutStrategyForIntent(intent): a lookup in the static table that has
\* one entry per UserIntent
getLayoutStrategyForIntent(intent) ==
  IF intent.k = "string" /\ intent.s \in UserIntents
  THEN [k |-> "object", layoutMode |-> Str("balanced")]
  ELSE Undefined

\* the two console.log calls of attemptPageGeneration read pageObject.type,
\* pageObject.title?.substring(0, 50) and pageObject.sections?.map(s => s.type)
LoggingThrows(page) ==
  LET secs == Get(page, "sections")
      title == Get(page, "title")
  IN \/ IsNullish(page)
     \/ (~IsNullish(secs) /\ secs.k # "array")
     \/ (secs.k = "array" /\ \E n \in 1..Len(secs.a) : IsNullish(secs.a[n]))
     \/ (~IsNullish(title) /\ title.k # "string")

\* page.sections.find((s) => s.type === 'hero'): the index found (0 if none)
HeroIndex(secs) ==
  IF \E n \in 1..Len(secs) : Get(secs[n], "type") = Str("hero")
  THEN CHOOSE n \in 1..Len(secs) :
         /\ Get(secs[n], "type") = Str("hero")
         /\ \A m \in 1..(n - 1) : Get(secs[m], "type") # Str("hero")
  ELSE 0

\* heroSection?.headline || page.title || ''
HeadlineOf(page) ==
  LET secs == Get(page, "sections").a
      h == HeroIndex(secs)
  IN IF h > 0 /\ Truthy(Get(secs[h], "headline")) THEN Get(secs[h], "headline")
     ELSE IF Truthy(Get(page, "title")) THEN Get(page, "title")
     ELSE Str("")

\* the titles pushed by the forEach over feature_grid sections
FeatureTitlesOf(page) ==
  LET secs == Get(page, "sections").a
      titles(sec) ==
        IF Get(sec, "type") = Str("feature_grid") /\ Truthy(Get(sec, "features"))
        THEN LET fs == Get(sec, "features").a
                 keep == {n \in 1..Len(fs) : Truthy(Get(fs[n], "title"))}
                 idx == FilterIdx(Len(fs), keep, 1)
             IN [n \in 1..Len(idx) |-> Get(fs[idx[n]], "title")]
        ELSE <<>>
  IN Flatten([n \in 1..Len(secs) |-> titles(secs[n])])

\* the extraction of headline and feature titles throws a TypeError
ExtractionThrows(page) ==
  LET secs == Get(page, "sections")
  IN \/ secs.k # "array"
     \/ \E n \in 1..Len(secs.a) : IsNullish(secs.a[n])
     \/ \E n \in 1..Len(secs.a) :
          LET fs == Get(secs.a[n], "features")
          IN /\ Get(secs.a[n], "type") = Str("feature_grid")
             /\ Truthy(fs)
             /\ (fs.k # "array" \/ \E m \in 1..Len(fs.a) : IsNullish(fs.a[m]))

\* generatePageSpec (intent-based), up to its first await.  memoryOk: the
\* content-memory read getPreviouslyUsedContent(sessionId) returns normally.
IntentStart(c, memoryOk) ==
  LET req == c.request
      classifierThrows == ~Truthy(req.userIntent) /\ req.userMessage.k # "string"
      intent == IF Truthy(req.userIntent) THEN req.userIntent
                ELSE Str(classifyIntent(req.userMessage.s).intent)
  IN IF classifierThrows THEN [c EXCEPT !.pc = "rejected"]
     ELSE IF IsNullish(getLayoutStrategyForIntent(intent))
     THEN [c EXCEPT !.pc = "rejected"]
     ELSE IF Truthy(req.sessionId) /\ ~memoryOk
     THEN Return(c, Failure("content memory unavailable", 0))
     ELSE [c EXCEPT !.pc = "awaitAttempt", !.attempts = @ + 1]

\* the continuation after `await attemptPageGeneration(request, 0, ...)`.
\* trackOk: trackGeneratedContent returns normally.
IntentAttemptSettled(c, o, trackOk) ==
  IF o.kind # "page" THEN Return(c, Failure(IntentAttemptErrorMessage(o), 0))
  ELSE IF LoggingThrows(o.page)
  THEN Return(c, Failure("Cannot read properties of null (reading 'type')", 0))
  ELSE LET d == [c EXCEPT !.parsed = o.page]
       IN IF ~Truthy(c.request.sessionId) THEN Return(d, Success(o.page, 0))
          ELSE IF ExtractionThrows(o.page)
          THEN Return(d, Failure("Cannot read properties of undefined (reading 'find')", 0))
          ELSE IF ~trackOk
          THEN Return([d EXCEPT !.tracked = @ + 1], Failure("content memory unavailable", 0))
          ELSE Return([d EXCEPT !.tracked = @ + 1], Success(o.page, 0))

\* a tracker call that would record the page title instead of the hero
\* headline (fault injection for C6)
TrackEntryTitle(c, page) ==
  [sessionId |-> c.request.sessionId, headline |-> Get(page, "title"),
   featureTitles |-> FeatureTitlesOf(page)]

\* the entry appended by trackGeneratedContent(sessionId, headline, featureTitles)
TrackEntry(c, page) ==
  [sessionId |-> c.request.sessionId, headline |-> HeadlineOf(page),
   featureTitles |-> FeatureTitlesOf(page)]

(***************************************************************************)
(* generatePagesBatch: Promise.all(requests.map((req) => generatePageSpec(req))) *)
(***************************************************************************)
\* Promise.all after the calls changed: it rejects with the first rejection,
\* stores each fulfilment value at its input index, and fulfils when none is
\* left pending
JoinAll(b, cs) ==
  IF b.pc # "pending" THEN b
  ELSE IF \E n \in 1..Len(cs) : cs[n].pc = "rejected" THEN [b EXCEPT !.pc = "rejected"]
  ELSE LET vals == [n \in 1..Len(cs) |->
                      IF cs[n].pc = "returned" THEN cs[n].result ELSE Undefined]
       IN IF \A n \in 1..Len(cs) : cs[n].pc = "returned"
          THEN [pc |-> "fulfilled", values |-> vals]
          ELSE [pc |-> "pending", values |-> vals]

\* requests.map((req) => generatePageSpec(req)): every invocation runs, in
\* input order, up to its first await
BatchStart ==
  /\ batch.pc = "idle"
  /\ \E memoryOk \in [1..Len(reqs) -> BOOLEAN] :
       /\ calls' = [n \in 1..Len(reqs) |->
                      IF variant = "template" THEN TemplateStart(NewCall(reqs[n]))
                      ELSE IntentStart(NewCall(reqs[n]), memoryOk[n])]
       /\ (variant = "template" => \A n \in 1..Len(reqs) : memoryOk[n])
  /\ batch' = JoinAll([pc |-> "pending", values |-> [n \in 1..Len(reqs) |-> Undefined]],
                      calls')
  /\ UNCHANGED <<clientVars, renderVars, parseVars, variant, pool, reqs, trackLog, stream, chatMessage, classification, docVars>>

\* generateFromTemplate settles for invocation i
TemplateSettles ==
  \E i \in 1..Len(calls) : \E o \in TemplateOutcomes :
    /\ calls[i].pc = "awaitTemplate"
    /\ calls' = [calls EXCEPT ![i] =
                   TemplateSettled([calls[i] EXCEPT !.template = OutcomeKind(o)], o)]
    /\ batch' = JoinAll(batch, calls')
    /\ UNCHANGED <<clientVars, renderVars, parseVars, variant, pool, reqs, trackLog, stream, chatMessage, classification, docVars>>

\* the backend call of invocation i settles (template + retry variant)
TemplateAttemptSettles ==
  \E i \in 1..Len(calls) : \E o \in AttemptOutcomes :
    /\ variant = "template"
    /\ calls[i].pc = "awaitAttempt"
    /\ calls' = [calls EXCEPT ![i] =
                   TemplateAttemptSettled([calls[i] EXCEPT
                                             !.history = Append(@, OutcomeKind(o))], o)]
    /\ batch' = JoinAll(batch, calls')
    /\ UNCHANGED <<clientVars, renderVars, parseVars, variant, pool, reqs, trackLog, stream, chatMessage, classification, docVars>>

\* the backend call of invocation i settles (intent-based variant)
IntentAttemptSettles ==
  \E i \in 1..Len(calls) : \E o \in AttemptOutcomes : \E trackOk \in BOOLEAN :
    /\ variant = "intent"
    /\ calls[i].pc = "awaitAttempt"
    /\ calls' = [calls EXCEPT ![i] =
                   IntentAttemptSettled([calls[i] EXCEPT
                                           !.history = Append(@, OutcomeKind(o))],
                                        o, trackOk)]
    /\ trackLog' = IF calls'[i].tracked > calls[i].tracked /\ trackOk
                   THEN Append(trackLog, TrackEntry(calls[i], o.page))
                   ELSE trackLog
    /\ batch' = JoinAll(batch, calls')
    /\ UNCHANGED <<clientVars, renderVars, parseVars, variant, pool, reqs, stream, chatMessage, classification, docVars>>

GenNext ==
  \/ BatchStart
  \/ TemplateSettles
  \/ TemplateAttemptSettles
  \/ IntentAttemptSettles

MaxBatch == 2

\* one generatePageSpec call
Init ==
  /\ variant \in {"template", "intent"}
  /\ pool = GenPages
  /\ reqs \in {<<r>> : r \in Requests}
  /\ calls = <<>>
  /\ batch = [pc |-> "idle", values |-> <<>>]
  /\ trackLog = <<>>
  /\ stream = NoStream
  /\ chatMessage = ""
  /\ classification = NotClassified
  /\ doc = NoDoc
  /\ validation = NotRun
  /\ sanitized = NotRun
  /\ resanitized = NotRun
  /\ revalidation = NotRun
  /\ response = NoResponse
  /\ rawText = NotRun
  /\ parsed = NotRun
  /\ sections = <<>>
  /\ heightMap = NotRun
  /\ requests = <<>>
  /\ isGenerating = FALSE
  /\ loadingProgress = 0
  /\ currentQuery = ""
  /\ pageHistory = <<>>
  /\ chatMessages = <<>>

\* generatePagesBatch over up to MaxBatch requests
BatchInit ==
  /\ variant \in {"template", "intent"}
  /\ pool = BatchPages
  /\ reqs \in UNION {[1..n -> BatchRequests] : n \in 0..MaxBatch}
  /\ calls = <<>>
  /\ batch = [pc |-> "idle", values |-> <<>>]
  /\ trackLog = <<>>
  /\ stream = NoStream
  /\ chatMessage = ""
  /\ classification = NotClassified
  /\ doc = NoDoc
  /\ validation = NotRun
  /\ sanitized = NotRun
  /\ resanitized = NotRun
  /\ revalidation = NotRun
  /\ response = NoResponse
  /\ rawText = NotRun
  /\ parsed = NotRun
  /\ sections = <<>>
  /\ heightMap = NotRun
  /\ requests = <<>>
  /\ isGenerating = FALSE
  /\ loadingProgress = 0
  /\ currentQuery = ""
  /\ pageHistory = <<>>
  /\ chatMessages = <<>>

Spec == Init /\ [][GenNext]_vars

BatchSpec == BatchInit /\ [][GenNext]_vars

(***************************************************************************)
(* Properties of generatePageSpec and generatePagesBatch                    *)
(***************************************************************************)
\* a value as JSON.stringify carries it: properties holding undefined vanish
RECURSIVE Json(_)
Json(v) ==
  CASE v.k = "object" ->
         [f \in {g \in DOMAIN v : g = "k" \/ v[g] # Undefined} |->
            IF f = "k" THEN "object" ELSE Json(v[f])]
    [] v.k = "array" -> Arr([n \in 1..Len(v.a) |-> Json(v.a[n])])
    [] OTHER -> v

DeepEquals(a, b) == Json(a) = Json(b)

Returned(i) == calls[i].pc = "returned"

\* C1: generatePageSpec never throws or rejects: every call resolves to a
\* GenerationResult with a boolean success field, whatever the collaborators do.
C1_NeverRejects ==
  \A i \in 1..Len(calls) :
    /\ calls[i].pc # "rejected"
    /\ (Returned(i) => calls[i].result.success \in BOOLEAN)

\* C2: partial success is not representable: success implies a page that
\* passes validatePageSpec, failure implies no page in the result.
C2_NoPartialSuccess ==
  \A i \in 1..Len(calls) :
    Returned(i) =>
      LET r == calls[i].result
      IN /\ (r.success => /\ "page" \in DOMAIN r
                          /\ Truthy(r.page)
                          /\ validatePageSpec(r.page) = Ok(<<>>))
         /\ (~r.success => "page" \notin DOMAIN r)

\* every document this call generated was rejected by the validator
AlwaysInvalid(c) ==
  /\ c.history # <<>>
  /\ \A n \in 1..Len(c.history) : c.history[n] = "invalid"

\* C3: with a validator that rejects every generated page, generatePageSpec
\* makes exactly maxRetries + 1 = 3 attempts and returns success:false with
\* retryCount = maxRetries = 2.
C3_BudgetExhaustion ==
  \A i \in 1..Len(calls) :
    (Returned(i) /\ AlwaysInvalid(calls[i])) =>
      /\ calls[i].attempts = maxRetries + 1
      /\ ~calls[i].result.success
      /\ calls[i].result.retryCount = maxRetries

\* C4: transport, parse and validation failures share one budget: after k <= 2
\* failed attempts of any kind attempt k+1 is made, a validating attempt k+1
\* returns success:true with retryCount = k, a call gives up only after 3
\* failed attempts, and never more than 3 attempts are made.
C4_SharedBudget ==
  \A i \in 1..Len(calls) :
    LET c == calls[i]
        h == c.history
    IN /\ c.attempts <= maxRetries + 1
       /\ (Returned(i) /\ h # <<>> /\ h[Len(h)] = "valid") =>
            (c.result.success /\ c.result.retryCount = Len(h) - 1)
       /\ (Returned(i) /\ c.attempts > 0 /\ ~c.result.success) =>
            Len(h) = maxRetries + 1

\* C5 (as claimed): every page returned with success:true equals
\* sanitizePageContent applied to the parsed page.
C5_ReturnsSanitizedPage ==
  \A i \in 1..Len(calls) :
    (Returned(i) /\ calls[i].result.success) =>
      DeepEquals(calls[i].result.page, sanitizePageContent(calls[i].parsed))

\* C5 (amended): generatePageSpec does not run the sanitizer: the page
\* returned with success:true is the document handed back by the parser or the
\* template engine, unchanged.
C5_ReturnsParsedPage ==
  \A i \in 1..Len(calls) :
    (Returned(i) /\ calls[i].result.success) =>
      calls[i].result.page = calls[i].parsed

\* a call accepted a document that the sanitizer would have changed
C5_Witness ==
  \E i \in 1..Len(calls) :
    /\ Returned(i) /\ calls[i].result.success
    /\ ~DeepEquals(calls[i].result.page, sanitizePageContent(calls[i].result.page))

\* C6 (as claimed): a call returning success:true has called track exactly
\* once, with the accepted headline and feature titles; a call returning
\* success:false has not called track.
C6_TrackedIffSuccess ==
  \A i \in 1..Len(calls) :
    Returned(i) =>
      IF calls[i].result.success
      THEN /\ calls[i].tracked = 1
           /\ trackLog = <<TrackEntry(calls[i], calls[i].result.page)>>
      ELSE calls[i].tracked = 0

\* C6 (amended): only the intent-based variant uses the tracker, and only for
\* a request that carries a sessionId: such a call returning success:true has
\* called track exactly once with the accepted headline and feature titles;
\* every other successful call has not called it; a call returning
\* success:false has recorded nothing (it called track at most once, and then
\* track threw).
C6_TrackedOnlyWithSession ==
  \A i \in 1..Len(calls) :
    Returned(i) =>
      LET c == calls[i]
          tracks == variant = "intent" /\ Truthy(c.request.sessionId)
      IN IF c.result.success
         THEN IF tracks
              THEN /\ c.tracked = 1
                   /\ Len(trackLog) = 1
                   /\ trackLog[1].sessionId = c.request.sessionId
                   /\ trackLog[1].headline = HeadlineOf(c.result.page)
                   /\ trackLog[1].featureTitles = FeatureTitlesOf(c.result.page)
              ELSE c.tracked = 0 /\ trackLog = <<>>
         ELSE /\ trackLog = <<>>
              /\ c.tracked <= 1
              /\ (c.tracked = 1 => tracks)

\* a successful intent-based call with a sessionId tracked the hero headline
\* and two feature titles
C6_Witness ==
  \E i \in 1..Len(calls) :
    /\ Returned(i) /\ calls[i].result.success
    /\ variant = "intent"
    /\ Len(trackLog) = 1
    /\ trackLog[1].headline = Str(Rep("h", 40))
    /\ Len(trackLog[1].featureTitles) = 2

\* C7: generatePagesBatch makes one generatePageSpec invocation per request,
\* returns results in input order whatever the completion order, and a failing
\* item never rejects the batch.
C7_BatchInOrder ==
  /\ batch.pc # "rejected"
  /\ (batch.pc # "idle" => Len(calls) = Len(reqs))
  /\ (batch.pc = "fulfilled" =>
        /\ Len(batch.values) = Len(reqs)
        /\ \A i \in 1..Len(reqs) :
             /\ batch.values[i] = calls[i].result
             /\ calls[i].request = reqs[i])

(***************************************************************************)
(* The SSE endpoint: ReadableStream start(controller) running               *)
(* processStreamWithController                                              *)
(***************************************************************************)
\* createEvent(eventType, data), keeping the fields of data that matter here
StageEvent(stageId, status) ==
  [event |-> "stage", stageId |-> stageId, status |-> status]

TextEvent(text) == [event |-> "text", text |-> text]

PageEvent(page) == [event |-> "page", page |-> page]

CompleteEvent(aiResponse, generatedPage) ==
  [event |-> "complete", message |-> aiResponse, generatedPage |-> generatedPage]

ErrorEvent == [event |-> "error"]

PersonaVectorsEvent == [event |-> "persona_vectors"]

\* how claude.messages.create may settle: a message with a text block, a
\* message without one, a body without a content array, or a rejection
TextOutcomes ==
  { [kind |-> "fulfilled",
     value |-> [k |-> "object",
                content |-> Arr(<<[k |-> "object", type |-> Str("text"),
                                   text |-> Str("We track depletions.")]>>)]],
    [kind |-> "fulfilled",
     value |-> [k |-> "object",
                content |-> Arr(<<[k |-> "object", type |-> Str("tool_use")]>>)]],
    [kind |-> "fulfilled", value |-> [k |-> "object"]],
    [kind |-> "rejected"] }

\* a handler that would let the rejection through (fault injection for C8)
CatchTextRethrow(o) ==
  IF o.kind = "rejected" THEN [state |-> "rejected", value |-> Undefined]
  ELSE [state |-> "fulfilled", value |-> o.value]

\* claude.messages.create(...).catch(error => null): the promise handed to
\* Promise.all
CatchText(o) ==
  IF o.kind = "rejected" THEN [state |-> "fulfilled", value |-> Null]
  ELSE [state |-> "fulfilled", value |-> o.value]

\* the request processStreamWithController builds: the validated message, no
\* sessionId, no userIntent
StreamRequest ==
  [userMessage |-> Str("how do you track sales?"), sessionId |-> Undefined,
   userIntent |-> Undefined]

StreamStartState ==
  [pc |-> "start", events |-> <<>>, cancelled |-> FALSE,
   text |-> [state |-> "idle", value |-> Undefined], textSettled |-> "no",
   aiResponse |-> "", generatedPage |-> Null]

\* sendEvent for each of evs, on a controller that still accepts chunks
Emit(st, evs) == [st EXCEPT !.events = @ \o evs]

\* an exception reaches the outer catch of processStreamWithController: it
\* enqueues 'error' and start() closes the stream. On a cancelled stream
\* enqueue throws again, in that catch and in the catch of start()
Fatal(st) ==
  IF st.cancelled THEN [st EXCEPT !.pc = "errored"]
  ELSE [Emit(st, <<ErrorEvent>>) EXCEPT !.pc = "closed"]

\* from the top of the try to `await recordPersonaSignalsBatch(signals)`
StreamStart(st, fails) ==
  IF st.cancelled THEN Fatal(st)
  ELSE IF fails = "classifyMessageIntent"
  THEN Fatal(Emit(st, <<StageEvent("init", "active"), StageEvent("intent", "active")>>))
  ELSE LET sent == Emit(st, <<StageEvent("init", "active"), StageEvent("intent", "active"),
                              StageEvent("intent", "complete"),
                              StageEvent("signals", "active")>>)
       IN IF fails = "detectPersonaSignals" THEN Fatal(sent)
          ELSE [sent EXCEPT !.pc = "awaitSignals"]

\* from there to the await of the two knowledge-base searches
StreamSignalsRecorded(st, fails) ==
  IF fails = "detectAndUpdateVectors" \/ st.cancelled THEN Fatal(st)
  ELSE [Emit(st, <<StageEvent("signals", "complete"), PersonaVectorsEvent,
                   StageEvent("knowledge", "active")>>)
          EXCEPT !.pc = "awaitKnowledge"]

\* from there to the await of Promise.all([text, page]); both calls have been
\* made when it is reached
StreamKnowledgeSettled(st, fails) ==
  IF fails = "knowledge" \/ st.cancelled THEN Fatal(st)
  ELSE LET sent == Emit(st, <<StageEvent("knowledge", "complete"),
                              StageEvent("response", "active")>>)
       IN IF fails = "getPersonalizedSystemPrompt" THEN Fatal(sent)
          ELSE [sent EXCEPT !.pc = "awaitJoin", !.text.state = "pending"]

\* Promise.all([text, page]) has settled
JoinSettled(st, c) ==
  \/ st.text.state = "rejected"
  \/ c.pc = "rejected"
  \/ st.text.state = "fulfilled" /\ c.pc = "returned"

JoinRejected(st, c) == st.text.state = "rejected" \/ c.pc = "rejected"

\* claudeTextResult.content.find((block) => block.type === 'text')
TextBlockIndex(content) ==
  IF \E n \in 1..Len(content.a) : Get(content.a[n], "type") = Str("text")
  THEN CHOOSE n \in 1..Len(content.a) :
         /\ Get(content.a[n], "type") = Str("text")
         /\ \A m \in 1..(n - 1) : Get(content.a[m], "type") # Str("text")
  ELSE 0

\* an epilogue that would leave out the 'complete' event
StreamEpilogueSilent(st) ==
  [Emit(st, <<StageEvent("page", "complete"), StageEvent("complete", "complete")>>)
     EXCEPT !.pc = "closed"]

\* from the stage event 'page' to the return, and controller.close()
StreamEpilogue(st) ==
  [Emit(st, <<StageEvent("page", "complete"),
              CompleteEvent(st.aiResponse, st.generatedPage),
              StageEvent("complete", "complete")>>)
     EXCEPT !.pc = "closed"]

\* the inner try after the join, then the epilogue
StreamJoined(st, c) ==
  IF st.cancelled THEN Fatal(st)
  ELSE IF JoinRejected(st, c) THEN StreamEpilogue(st)
  ELSE LET result == st.text.value
           content == Get(result, "content")
       IN IF Truthy(result) /\ content.k # "array" THEN StreamEpilogue(st)
          ELSE LET n == IF Truthy(result) THEN TextBlockIndex(content) ELSE 0
                   aiResponse == IF n > 0 THEN Get(content.a[n], "text").s
                                 ELSE "Error generating response"
                   texted == [Emit(st, <<TextEvent(aiResponse),
                                         StageEvent("response", "complete")>>)
                                EXCEPT !.aiResponse = aiResponse]
               IN IF c.result.success /\ Truthy(Get(c.result, "page"))
                  THEN StreamEpilogue(
                         [Emit(texted, <<PageEvent(c.result.page)>>)
                            EXCEPT !.generatedPage =
                                     [k |-> "object", page |-> c.result.page]])
                  ELSE StreamEpilogue(texted)

StreamStarts ==
  \E fails \in {"none", "classifyMessageIntent", "detectPersonaSignals"} :
    /\ stream.pc = "start"
    /\ stream' = StreamStart(stream, fails)
    /\ UNCHANGED <<clientVars, renderVars, parseVars, genVars, chatMessage, classification, docVars>>

StreamSignalsSettle ==
  \E fails \in {"none", "detectAndUpdateVectors"} :
    /\ stream.pc = "awaitSignals"
    /\ stream' = StreamSignalsRecorded(stream, fails)
    /\ UNCHANGED <<clientVars, renderVars, parseVars, genVars, chatMessage, classification, docVars>>

\* the knowledge searches settle; on success the text call and
\* generatePageSpec are both started before the next await
StreamKnowledgeSettles ==
  \E fails \in {"none", "knowledge", "getPersonalizedSystemPrompt"} :
    /\ stream.pc = "awaitKnowledge"
    /\ stream' = StreamKnowledgeSettled(stream, fails)
    /\ calls' = IF stream'.pc # "awaitJoin" THEN calls
                ELSE IF variant = "template" THEN <<TemplateStart(NewCall(reqs[1]))>>
                ELSE <<IntentStart(NewCall(reqs[1]), TRUE)>>
    /\ UNCHANGED <<clientVars, renderVars, parseVars, variant, pool, reqs, batch, trackLog, chatMessage, classification,
                   docVars>>

\* claude.messages.create settles and its catch handler runs
TextSettles ==
  \E o \in TextOutcomes :
    /\ stream.pc = "awaitJoin"
    /\ stream.text.state = "pending"
    /\ stream' = [stream EXCEPT !.text = CatchText(o), !.textSettled = o.kind]
    /\ UNCHANGED <<clientVars, renderVars, parseVars, genVars, chatMessage, classification, docVars>>

\* the continuation of `await Promise.all([...])`
StreamJoins ==
  /\ stream.pc = "awaitJoin"
  /\ JoinSettled(stream, calls[1])
  /\ stream' = StreamJoined(stream, calls[1])
  /\ UNCHANGED <<clientVars, renderVars, parseVars, genVars, chatMessage, classification, docVars>>

\* the client goes away: the stream is cancelled and enqueue throws from now on
StreamCancelled ==
  /\ stream.pc \in {"start", "awaitSignals", "awaitKnowledge", "awaitJoin"}
  /\ ~stream.cancelled
  /\ stream' = [stream EXCEPT !.cancelled = TRUE]
  /\ UNCHANGED <<clientVars, renderVars, parseVars, genVars, chatMessage, classification, docVars>>

StreamInit ==
  /\ variant \in {"template", "intent"}
  /\ pool = GenPages
  /\ reqs = <<StreamRequest>>
  /\ calls = <<>>
  /\ batch = [pc |-> "idle", values |-> <<>>]
  /\ trackLog = <<>>
  /\ stream = StreamStartState
  /\ chatMessage = ""
  /\ classification = NotClassified
  /\ doc = NoDoc
  /\ validation = NotRun
  /\ sanitized = NotRun
  /\ resanitized = NotRun
  /\ revalidation = NotRun
  /\ response = NoResponse
  /\ rawText = NotRun
  /\ parsed = NotRun
  /\ sections = <<>>
  /\ heightMap = NotRun
  /\ requests = <<>>
  /\ isGenerating = FALSE
  /\ loadingProgress = 0
  /\ currentQuery = ""
  /\ pageHistory = <<>>
  /\ chatMessages = <<>>

StreamNext ==
  \/ StreamStarts
  \/ StreamSignalsSettle
  \/ StreamKnowledgeSettles
  \/ TextSettles
  \/ TemplateSettles
  \/ TemplateAttemptSettles
  \/ IntentAttemptSettles
  \/ StreamJoins
  \/ StreamCancelled

StreamSpec == StreamInit /\ [][StreamNext]_vars

HasEvent(name) == \E n \in 1..Len(stream.events) : stream.events[n].event = name

\* C8: the text completion and generatePageSpec are dispatched together and
\* joined: a 'text' or 'page' event is on the stream only once both calls have
\* settled, and a rejected text completion does not keep the page result from
\* being processed: the run still sends the fallback text and, when page
\* generation succeeded, the 'page' event with that page.
C8_JoinedBeforeEvents ==
  /\ (stream.text.state = "idle") = (calls = <<>>)
  /\ (HasEvent("text") \/ HasEvent("page")) =>
       /\ stream.textSettled # "no"
       /\ calls[1].pc = "returned"
  /\ (stream.pc = "closed" /\ stream.textSettled = "rejected" /\ ~HasEvent("error")) =>
       /\ TextEvent("Error generating response") \in
            {stream.events[n] : n \in 1..Len(stream.events)}
       /\ (calls[1].result.success =>
             PageEvent(calls[1].result.page) \in
               {stream.events[n] : n \in 1..Len(stream.events)})

\* the text completion was rejected and the page was still sent
C8_Witness ==
  /\ stream.pc = "closed"
  /\ stream.textSettled = "rejected"
  /\ HasEvent("page")
  /\ calls[1].result.success

(***************************************************************************)
(* classifyIntent applied to a message                                      *)
(***************************************************************************)
MaxWords == 2

Vocabulary ==
  {"what", "is", "BevGenie", "compare", "roi", "weather", "feature", "product",
   "pricing?", "hello", "setup"}

RECURSIVE JoinWords(_)
JoinWords(ws) ==
  IF ws = <<>> THEN ""
  ELSE IF Len(ws) = 1 THEN ws[1]
  ELSE ws[1] \o " " \o JoinWords(Tail(ws))

\* the messages classified: up to MaxWords words, and a few whole sentences
Messages ==
  {JoinWords(ws) : ws \in UNION {[1..n -> Vocabulary] : n \in 0..MaxWords}}
    \cup {"   ", "  What is BevGenie?  ", "Tell me about your pricing",
          "how does it compare to tableau", "show me the ROI numbers",
          "we are a craft brewery looking to grow our distribution footprint",
          "tell me about the product platform overview compare to tableau",
          "what features compare to", "I need this", "ok?", "hmm", "so?\n",
          "is this one of those long ones we see now and then or not?",
          "a\nb\nc\nd\ne\nf\ng\nh\ni\nj?", "a  b  c  d  e  f?"}

Classify ==
  /\ classification = NotClassified
  /\ classification' = classifyIntent(chatMessage)
  /\ UNCHANGED <<clientVars, renderVars, parseVars, genVars, stream, chatMessage, docVars>>

ClassifyInit ==
  /\ variant = "intent"
  /\ pool = {}
  /\ reqs = <<>>
  /\ calls = <<>>
  /\ batch = [pc |-> "idle", values |-> <<>>]
  /\ trackLog = <<>>
  /\ stream = NoStream
  /\ chatMessage \in Messages
  /\ classification = NotClassified
  /\ doc = NoDoc
  /\ validation = NotRun
  /\ sanitized = NotRun
  /\ resanitized = NotRun
  /\ revalidation = NotRun
  /\ response = NoResponse
  /\ rawText = NotRun
  /\ parsed = NotRun
  /\ sections = <<>>
  /\ heightMap = NotRun
  /\ requests = <<>>
  /\ isGenerating = FALSE
  /\ loadingProgress = 0
  /\ currentQuery = ""
  /\ pageHistory = <<>>
  /\ chatMessages = <<>>

ClassifyNext == Classify

ClassifySpec == ClassifyInit /\ [][ClassifyNext]_vars

Classified == classification # NotClassified

\* position of an intent in the declaration order
RankOf(intent) == CHOOSE n \in 1..Len(IntentOrder) : IntentOrder[n] = intent

HighestScore(scores) ==
  CHOOSE m \in {scores[it] : it \in DOMAIN scores} :
    \A it \in DOMAIN scores : scores[it] <= m

\* C9: classifyIntent returns the intent with the highest score, and among
\* several intents sharing a highest non-zero score the one declared first in
\* product_inquiry, feature_question, comparison, stats_roi, implementation,
\* use_case, off_topic.
C9_FirstHighestWins ==
  (Classified /\ HighestScore(classification.scores) > 0) =>
    LET scores == classification.scores
        won == classification.intent
    IN /\ scores[won] = HighestScore(scores)
       /\ \A it \in DOMAIN scores :
            /\ scores[it] <= scores[won]
            /\ (RankOf(it) < RankOf(won) => scores[it] < scores[won])

\* stats_roi and off_topic share the highest score, 6, and stats_roi is returned
C9_Witness ==
  /\ Classified
  /\ classification.scores["stats_roi"] = 6
  /\ classification.scores["off_topic"] = 6
  /\ HighestScore(classification.scores) = 6
  /\ classification.intent = "stats_roi"

\* C10: the confidence classifyIntent returns lies in [0,1] for every message,
\* whatever the seven scores are, all zero included.
C10_ConfidenceInUnitInterval ==
  Classified =>
    /\ classification.confidence.den > 0
    /\ 0 <= classification.confidence.num
    /\ classification.confidence.num <= classification.confidence.den

\* the ratio maxScore / (0.6 * totalScore) exceeds 1 and 1 is returned
C10_Witness ==
  /\ Classified
  /\ SumScores(classification.scores, Len(IntentOrder)) > 0
  /\ 10 * classification.maxScore >
       6 * SumScores(classification.scores, Len(IntentOrder))
  /\ classification.confidence = [num |-> 1, den |-> 1]

\* the intents one of whose phrases occurs in the normalized message
PhraseIntents ==
  LET normalizedMessage == Trim(ToLowerCase(chatMessage))
  IN {it \in DOMAIN INTENT_PATTERNS :
        \E n \in 1..Len(INTENT_PATTERNS[it].phrases) :
          Includes(normalizedMessage, INTENT_PATTERNS[it].phrases[n])}

\* C11 (as claimed): a message that contains a phrase of an intent's phrases
\* list is classified as that intent, with matchedPatterns non-empty,
\* whatever else it contains.
C11_PhraseDecides ==
  Classified =>
    \A it \in PhraseIntents :
      /\ classification.intent = it
      /\ classification.matchedPatterns # <<>>

\* C11 (amended): a phrase of an intent's list adds 3 to that intent's score;
\* the intent returned then has non-empty matchedPatterns and a score at least
\* as high, and it is the phrase's intent unless another intent scores higher,
\* or the same and is declared earlier.
C11_PhraseScores ==
  Classified =>
    \A it \in PhraseIntents :
      LET scores == classification.scores
          won == classification.intent
      IN /\ scores[it] >= 3
         /\ classification.matchedPatterns # <<>>
         /\ scores[won] >= scores[it]
         /\ (won # it => \/ scores[won] > scores[it]
                         \/ RankOf(won) < RankOf(it))

\* "compare to" occurs, yet product_inquiry outscores comparison without any
\* phrase of its own
C11_Witness ==
  /\ Classified
  /\ PhraseIntents = {"comparison"}
  /\ classification.intent = "product_inquiry"
  /\ classification.scores["comparison"] = 9

(***************************************************************************)
(* validatePageSpec and sanitizePageContent applied to a document           *)
(***************************************************************************)
MaxSections == 2

HeroSub(n, m) == Spread(HeroOf(n), [subheadline |-> Str(Rep("s", m))])

FeatureGridOf(count, titleLen, descLen) ==
  [k |-> "object", type |-> Str("feature_grid"),
   features |-> Arr([i \in 1..count |->
                       [k |-> "object", title |-> Str(Rep("t", titleLen)),
                        description |-> Str(Rep("f", descLen))]])]

FaqOf(count) ==
  [k |-> "object", type |-> Str("faq"),
   items |-> Arr([i \in 1..count |->
                    [k |-> "object", question |-> Str(Rep("q", 20)),
                     answer |-> Str(Rep("a", 40))]])]

\* a single_screen section with the given counts and text lengths
SingleScreenWith(p) ==
  [k |-> "object", type |-> Str("single_screen"),
   headline |-> Str(Rep("h", p.headline)), subtitle |-> Str(Rep("s", p.subtitle)),
   insights |-> Arr([i \in 1..p.insights |->
                       [k |-> "object", text |-> Str(Rep("i", p.insightLen))]]),
   stats |-> Arr([i \in 1..p.stats |->
                    [k |-> "object", value |-> Str("47%"), label |-> Str("Faster Response"),
                     description |-> Str(Rep("x", p.descLen))]]),
   howItWorks |-> Arr([i \in 1..p.steps |-> Str(Rep("w", p.stepLen))]),
   ctas |-> Arr([i \in 1..p.ctas |->
                   [k |-> "object", text |-> Str(Rep("c", p.ctaLen)),
                    type |-> Str("primary")]])]

\* counts and lengths that VALIDATION_RULES.single_screen accepts
BaseShape ==
  [headline |-> 30, subtitle |-> 20, insights |-> 3, insightLen |-> 60, stats |-> 3,
   descLen |-> 20, steps |-> 3, stepLen |-> 30, ctas |-> 2, ctaLen |-> 10]

\* one count or length moved to, or across, a limit
ShapeChanges ==
  { <<"headline", 80>>, <<"headline", 81>>, <<"headline", 0>>, <<"subtitle", 61>>,
    <<"insights", 2>>, <<"insights", 4>>, <<"insights", 5>>,
    <<"insightLen", 251>>, <<"insightLen", 0>>,
    <<"stats", 2>>, <<"stats", 4>>, <<"descLen", 60>>, <<"descLen", 0>>,
    <<"steps", 0>>, <<"steps", 5>>, <<"steps", 6>>, <<"stepLen", 101>>,
    <<"ctas", 1>>, <<"ctas", 3>>, <<"ctas", 4>>, <<"ctaLen", 41>> }

SingleScreenShapes ==
  {BaseShape} \cup {[BaseShape EXCEPT ![c[1]] = c[2]] : c \in ShapeChanges}

VisualContentOf(contentLen, highlightLen) ==
  [k |-> "object", type |-> Str("highlight_box"), title |-> Str(Rep("v", 20)),
   content |-> Str(Rep("c", contentLen)), highlight |-> Str(Rep("g", highlightLen))]

\* single_screen sections as a backend may also write them: with a visual
\* content block, insights as bare strings, stats without value and label, no
\* headline, no howItWorks
SingleScreenOddities ==
  LET base == SingleScreenWith(BaseShape)
  IN { Spread(base, [visualContent |-> VisualContentOf(120, 30)]),
       Spread(base, [visualContent |-> VisualContentOf(401, 201)]),
       Spread(base, [visualContent |-> VisualContentOf(120, 0)]),
       Spread(base, [insights |-> Arr([i \in 1..3 |-> Str(Rep("i", 60))])]),
       Spread(base, [insights |-> Arr([i \in 1..3 |-> Str(Rep("i", 260))])]),
       Spread(base, [insights |-> Arr([i \in 1..3 |-> Str("")])]),
       Spread(base, [stats |-> Arr([i \in 1..3 |-> [k |-> "object"]])]),
       Spread(base, [insights |-> Arr(<<Null>>)]),
       Spread(base, [insights |-> Str("faster, cheaper, better")]),
       Spread(base, [howItWorks |-> Str("connect, learn, act")]),
       [f \in (DOMAIN base) \ {"headline"} |-> base[f]],
       [f \in (DOMAIN base) \ {"howItWorks"} |-> base[f]],
       [f \in (DOMAIN base) \ {"insights", "stats", "ctas"} |-> base[f]] }

SectionOfType(t) == [k |-> "object", type |-> Str(t)]

\* the section types of the documents: the eight of pageSectionSchema, the
\* leftover rules entry, a made-up one and two Object.prototype keys
SectionTypes ==
  {"hero", "feature_grid", "metrics", "comparison_table", "steps", "cta", "faq",
   "single_screen", "testimonial", "banner", "constructor", "toString"}

HeroSections ==
  {HeroOf(n) : n \in {0, 5, 9, 10, 40, 100, 101}}
    \cup {HeroSub(40, m) : m \in {5, 19, 20, 150, 151}}

FeatureGridSections ==
  {FeatureGridOf(c, 10, 20) : c \in {0, 1, 2, 6, 7}}
    \cup {FeatureGridOf(2, 4, 20), FeatureGridOf(2, 51, 20), FeatureGridOf(2, 10, 9),
          FeatureGridOf(2, 10, 151), FeatureGridOf(2, 10, 201), FeatureGridOf(2, 0, 20)}

FaqSections == {FaqOf(c) : c \in {0, 1, 2, 8, 9}}

SingleScreenSections ==
  {SingleScreenWith(p) : p \in SingleScreenShapes} \cup SingleScreenOddities

\* sections of the four types whose bounds C14 lists, built as their schemas
\* describe them
ListedSections ==
  HeroSections \cup FeatureGridSections \cup FaqSections
    \cup {SingleScreenWith(p) : p \in SingleScreenShapes}

OtherSections ==
  {SectionOfType(t) : t \in SectionTypes}
    \cup { Obj([type |-> Str("feature_grid"), features |-> Str("fast, cheap")]),
           Obj([type |-> Str("faq"), items |-> Num(3)]),
           Obj([type |-> Str("steps"), steps |-> Obj([first |-> Str("connect")])]),
           Obj([type |-> Str("metrics"), metrics |-> Str("47%")]),
           Obj([type |-> Str("feature_grid"), features |-> Arr(<<Null, Null>>)]),
           [k |-> "object"], Null, Undefined, Str("hero"), Num(7) }

\* the sections combined into documents of several sections
CoreSections ==
  { HeroOf(40), HeroOf(5), SingleScreenWith(BaseShape),
    SingleScreenWith([BaseShape EXCEPT !.headline = 81]), SectionOfType("testimonial") }

\* documents that are no page with a sections array of at least one entry
MalformedDocs ==
  { Null, Undefined, Str("not a page"), [k |-> "object"], PageNoSections,
    PageOf(Arr(<<>>)), PageOf(Str("hero")), PageOf(Null), PageOf(Obj([length |-> Num(1)])),
    [f \in (DOMAIN PageValidHero) \ {"title"} |-> PageValidHero[f]] }

Docs ==
  {PageOf(Arr(<<sec>>)) :
     sec \in ListedSections \cup SingleScreenOddities \cup OtherSections}
    \cup {PageOf(Arr(secs)) :
            secs \in UNION {[1..n -> CoreSections] : n \in 2..MaxSections}}
    \cup MalformedDocs

Validate ==
  /\ doc # NoDoc
  /\ validation = NotRun
  /\ validation' = validatePageSpec(doc)
  /\ UNCHANGED <<clientVars, renderVars, parseVars, genVars, stream, chatMessage, classification, doc, sanitized,
                 resanitized, revalidation>>

Sanitize ==
  /\ doc # NoDoc
  /\ sanitized = NotRun
  /\ sanitized' = sanitizePageContent(doc)
  /\ UNCHANGED <<clientVars, renderVars, parseVars, genVars, stream, chatMessage, classification, doc, validation,
                 resanitized, revalidation>>

\* sanitizePageContent on the document it returned
Resanitize ==
  /\ sanitized \notin {NotRun, Threw}
  /\ resanitized = NotRun
  /\ resanitized' = sanitizePageContent(sanitized)
  /\ UNCHANGED <<clientVars, renderVars, parseVars, genVars, stream, chatMessage, classification, doc, validation,
                 sanitized, revalidation>>

\* validatePageSpec on the document sanitizePageContent returned
Revalidate ==
  /\ sanitized \notin {NotRun, Threw}
  /\ revalidation = NotRun
  /\ revalidation' = validatePageSpec(sanitized)
  /\ UNCHANGED <<clientVars, renderVars, parseVars, genVars, stream, chatMessage, classification, doc, validation,
                 sanitized, resanitized>>

DocInit ==
  /\ variant = "template"
  /\ pool = {}
  /\ reqs = <<>>
  /\ calls = <<>>
  /\ batch = [pc |-> "idle", values |-> <<>>]
  /\ trackLog = <<>>
  /\ stream = NoStream
  /\ chatMessage = ""
  /\ classification = NotClassified
  /\ doc \in Docs
  /\ validation = NotRun
  /\ sanitized = NotRun
  /\ resanitized = NotRun
  /\ revalidation = NotRun
  /\ response = NoResponse
  /\ rawText = NotRun
  /\ parsed = NotRun
  /\ sections = <<>>
  /\ heightMap = NotRun
  /\ requests = <<>>
  /\ isGenerating = FALSE
  /\ loadingProgress = 0
  /\ currentQuery = ""
  /\ pageHistory = <<>>
  /\ chatMessages = <<>>

DocNext ==
  \/ Validate
  \/ Sanitize
  \/ Resanitize
  \/ Revalidate

DocSpec == DocInit /\ [][DocNext]_vars

Validated == validation # NotRun

Sanitized == sanitized # NotRun

\* C12: validatePageSpec is total: for a document of any shape it returns a
\* list of violation strings and never throws.
C12_ValidatorTotal ==
  Validated => ~validation.threw

\* the section types of pageSectionSchema
SchemaSectionTypes ==
  {"hero", "feature_grid", "metrics", "comparison_table", "steps", "cta", "faq",
   "single_screen"}

\* the document is a page whose sections validatePageSpec goes through
HasSections(d) ==
  /\ d.k = "object"
  /\ Truthy(Get(d, "type")) /\ Truthy(Get(d, "title")) /\ Truthy(Get(d, "description"))
  /\ Get(d, "sections").k = "array"
  /\ Len(Get(d, "sections").a) > 0

\* some violation string is about section number index (counted from 0)
ReportsSection(errors, index) ==
  LET prefix == "Section " \o ToString(index) \o " ("
  IN \E n \in 1..Len(errors) :
       /\ Len(errors[n]) >= Len(prefix)
       /\ SubSeq(errors[n], 1, Len(prefix)) = prefix

\* C13: validatePageSpec reports a violation for every section whose type is
\* not one of hero, feature_grid, metrics, comparison_table, steps, cta, faq,
\* single_screen.
C13_UnknownTypeReported ==
  (Validated /\ ~validation.threw /\ HasSections(doc)) =>
    \A n \in 1..Len(doc.sections.a) :
      LET type == Get(doc.sections.a[n], "type")
      IN (type.k # "string" \/ type.s \notin SchemaSectionTypes) =>
           ReportsSection(validation.errors, n - 1)

\* v is a string of min..max characters
StringWithin(v, min, max) == v.k = "string" /\ Len(v.s) >= min /\ Len(v.s) <= max

\* v is an array of min..max entries
ArrayWithin(v, min, max) == v.k = "array" /\ Len(v.a) >= min /\ Len(v.a) <= max

\* the bounds of heroSectionSchema, featureGridSectionSchema, faqSectionSchema
\* and singleScreenSectionSchema that C14 lists
MeetsDocumentedBounds(section) ==
  LET type == Get(section, "type").s
  IN CASE type = "hero" ->
            /\ StringWithin(Get(section, "headline"), 10, 100)
            /\ \/ Get(section, "subheadline") = Undefined
               \/ StringWithin(Get(section, "subheadline"), 20, 150)
       [] type = "feature_grid" ->
            /\ ArrayWithin(Get(section, "features"), 1, 6)
            /\ \A n \in 1..Len(section.features.a) :
                 /\ StringWithin(Get(section.features.a[n], "title"), 5, 50)
                 /\ StringWithin(Get(section.features.a[n], "description"), 10, 200)
       [] type = "faq" -> ArrayWithin(Get(section, "items"), 1, 8)
       [] type = "single_screen" ->
            /\ ArrayWithin(Get(section, "insights"), 3, 4)
            /\ ArrayWithin(Get(section, "stats"), 2, 3)
            /\ ArrayWithin(Get(section, "howItWorks"), 3, 5)
            /\ ArrayWithin(Get(section, "ctas"), 1, 3)
       [] OTHER -> FALSE

ListedDocs == {PageOf(Arr(<<sec>>)) : sec \in ListedSections}

\* C14: validatePageSpec returns the empty list if and only if the document
\* meets the documented bounds: hero headline 10-100 and subheadline 20-150
\* when present; feature_grid 1-6 features with title 5-50 and description
\* 10-200; faq 1-8 items; single_screen 3-4 insights, 2-3 stats, 3-5
\* howItWorks steps and 1-3 ctas.
C14_EmptyIffWithinBounds ==
  (Validated /\ doc \in ListedDocs) =>
    /\ ~validation.threw
    /\ (validation.errors = <<>>) = MeetsDocumentedBounds(doc.sections.a[1])

Resanitized == resanitized # NotRun

\* C15: sanitizePageContent is idempotent: on every document it returns for,
\* applying it to its result gives a document deep-equal to that result.
C15_SanitizeIdempotent ==
  Resanitized =>
    /\ resanitized # Threw
    /\ DeepEquals(resanitized, sanitized)

\* C16: sanitizing never introduces violations: for every document that
\* validatePageSpec accepts, sanitizePageContent returns a document that
\* validatePageSpec accepts too.
C16_SanitizeKeepsValid ==
  (Validated /\ validation = Ok(<<>>)) =>
    /\ sanitized # Threw
    /\ (revalidation # NotRun => revalidation = Ok(<<>>))

\* C17: sanitizePageContent never fails: for any parsed document it returns a
\* document and does not throw.
C17_SanitizeNeverFails ==
  Sanitized => sanitized # Threw

\* the sanitizer returned a document for a page with a sections array
SanitizedPage ==
  /\ Sanitized
  /\ sanitized # Threw
  /\ doc.k = "object"
  /\ Get(doc, "sections").k = "array"

\* v is no string, or a string of at most max characters
AtMost(v, max) == v.k = "string" => Len(v.s) <= max

\* v is no array, or an array of at most max entries
NoMoreThan(v, max) == v.k = "array" => Len(v.a) <= max

\* every entry of the array v (if it is one) has its field f within max
EachAtMost(v, f, max) ==
  v.k = "array" => \A n \in 1..Len(v.a) : AtMost(Get(v.a[n], f), max)

\* the maxima documented for the four section types whose bounds are listed,
\* and those of VALIDATION_RULES.single_screen for its text fields
WithinDocumentedMaxima(section) ==
  LET type == Get(section, "type")
  IN CASE type = Str("hero") ->
            /\ AtMost(Get(section, "headline"), 100)
            /\ AtMost(Get(section, "subheadline"), 150)
       [] type = Str("feature_grid") ->
            /\ NoMoreThan(Get(section, "features"), 6)
            /\ EachAtMost(Get(section, "features"), "title", 50)
            /\ EachAtMost(Get(section, "features"), "description", 200)
       [] type = Str("faq") -> NoMoreThan(Get(section, "items"), 8)
       [] type = Str("single_screen") ->
            /\ AtMost(Get(section, "headline"), 80)
            /\ AtMost(Get(section, "subtitle"), 60)
            /\ NoMoreThan(Get(section, "insights"), 4)
            /\ NoMoreThan(Get(section, "stats"), 3)
            /\ NoMoreThan(Get(section, "howItWorks"), 5)
            /\ NoMoreThan(Get(section, "ctas"), 3)
            /\ EachAtMost(Get(section, "insights"), "text", 250)
            /\ EachAtMost(Get(section, "ctas"), "text", 40)
       [] OTHER -> TRUE

\* the sanitized document has the sections of the document, type by type
SameSectionsInOrder ==
  /\ Get(sanitized, "sections").k = "array"
  /\ Len(sanitized.sections.a) = Len(doc.sections.a)
  /\ \A n \in 1..Len(doc.sections.a) :
       Get(sanitized.sections.a[n], "type") = Get(doc.sections.a[n], "type")

Clipped(out, in, max) ==
  IF in.k = "string" /\ Len(in.s) > max
  THEN /\ out.k = "string"
       /\ Len(out.s) = max
       /\ SubSeq(out.s, 1, max - 3) = SubSeq(in.s, 1, max - 3)
       /\ SubSeq(out.s, max - 2, max) = "..."
  ELSE out = in

\* out is an array of the first max entries of the array in (none when in is
\* missing), entry n of out standing in relation R to entry n of in
CutTo(out, in, max, R(_, _)) ==
  /\ out.k = "array"
  /\ Len(out.a) = (IF in.k # "array" THEN 0
                   ELSE IF Len(in.a) < max THEN Len(in.a) ELSE max)
  /\ \A n \in 1..Len(out.a) : R(out.a[n], in.a[n])

InsightClipped(out, in) ==
  Clipped(Get(out, "text"), IF Truthy(Get(in, "text")) THEN Get(in, "text") ELSE in, 250)

StatClipped(out, in) ==
  /\ Clipped(Get(out, "value"), Get(in, "value"), 15)
  /\ Clipped(Get(out, "label"), Get(in, "label"), 40)
  /\ Clipped(Get(out, "description"),
             IF Truthy(Get(in, "description")) THEN Get(in, "description") ELSE Undefined,
             50)

StepClipped(out, in) == Clipped(out, in, 100)

CtaClipped(out, in) ==
  /\ Clipped(Get(out, "text"), Get(in, "text"), 40)
  /\ Get(out, "type") = Get(in, "type")

VisualContentClipped(out, in) ==
  IF ~Truthy(in) THEN out = in
  ELSE /\ Clipped(Get(out, "title"), Get(in, "title"), 50)
       /\ Clipped(Get(out, "content"), Get(in, "content"), 400)
       /\ Clipped(Get(out, "highlight"),
                  IF Truthy(Get(in, "highlight")) THEN Get(in, "highlight") ELSE Undefined,
                  200)

SingleScreenClipped(out, in) ==
  /\ Clipped(Get(out, "headline"), Get(in, "headline"), 80)
  /\ Clipped(Get(out, "subtitle"), Get(in, "subtitle"), 60)
  /\ CutTo(Get(out, "insights"), Get(in, "insights"), 4, InsightClipped)
  /\ CutTo(Get(out, "stats"), Get(in, "stats"), 3, StatClipped)
  /\ CutTo(Get(out, "howItWorks"), Get(in, "howItWorks"), 5, StepClipped)
  /\ CutTo(Get(out, "ctas"), Get(in, "ctas"), 3, CtaClipped)
  /\ VisualContentClipped(Get(out, "visualContent"), Get(in, "visualContent"))

JsonSpace == {" ", "\t", "\n", "\r"}

\* the first position from i on that holds no JSON white space (Len(s) + 1 if none)
SkipSpace(s, i) ==
  IF \A n \in i..Len(s) : CharAt(s, n) \in JsonSpace THEN Len(s) + 1
  ELSE CHOOSE n \in i..Len(s) :
         /\ CharAt(s, n) \notin JsonSpace
         /\ \A m \in i..(n - 1) : CharAt(s, m) \in JsonSpace

IsDigitAt(s, i) == i <= Len(s) /\ \E d \in 0..9 : ToString(d) = CharAt(s, i)

DigitAt(s, i) == CHOOSE d \in 0..9 : ToString(d) = CharAt(s, i)

\* s.startsWith(prefix, i - 1)
StartsWithAt(s, prefix, i) ==
  i + Len(prefix) - 1 <= Len(s) /\ SubSeq(s, i, i + Len(prefix) - 1) = prefix

\* what a parsing step yields: a value and the position after it, or no value
Parsed(v, next) == [ok |-> TRUE, v |-> v, next |-> next]

NotJson == [ok |-> FALSE]

Bool(b) == [k |-> "boolean", b |-> b]

RECURSIVE ParseDigits(_, _, _)
\* the digits from position i on, read as a number continuing n
ParseDigits(s, i, n) ==
  IF IsDigitAt(s, i) THEN ParseDigits(s, i + 1, 10 * n + DigitAt(s, i))
  ELSE Parsed(Num(n), i)

\* an integer at position i: -? (0 | [1-9][0-9]*); fractions and exponents
\* do not occur in the texts
ParseNumber(s, i) ==
  LET neg == CharAt(s, i) = "-"
      j == IF neg THEN i + 1 ELSE i
  IN IF ~IsDigitAt(s, j) THEN NotJson
     ELSE IF CharAt(s, j) = "0"
          THEN IF IsDigitAt(s, j + 1) THEN NotJson ELSE Parsed(Num(0), j + 1)
          ELSE LET r == ParseDigits(s, j, 0)
               IN IF neg THEN Parsed(Num(0 - r.v.n), r.next) ELSE r

\* a string at position i (its opening quote): up to the next quote; a line
\* break or tab inside it is no JSON, escapes do not occur in the texts
ParseString(s, i) ==
  IF \A n \in (i + 1)..Len(s) : CharAt(s, n) # "\""
  THEN NotJson
  ELSE LET close == CHOOSE n \in (i + 1)..Len(s) :
                      /\ CharAt(s, n) = "\""
                      /\ \A m \in (i + 1)..(n - 1) : CharAt(s, m) # "\""
           body == SubSeq(s, i + 1, close - 1)
       IN IF \E n \in 1..Len(body) : CharAt(body, n) \in {"\n", "\r", "\t", "\\"}
          THEN NotJson
          ELSE Parsed(Str(body), close + 1)

RECURSIVE ParseValue(_, _)
RECURSIVE ParseMembers(_, _, _)
RECURSIVE ParseElements(_, _, _)
\* the JSON value that starts at the first non-space position from i on
ParseValue(s, i) ==
  LET j == SkipSpace(s, i)
      c == CharAt(s, j)
  IN IF j > Len(s) THEN NotJson
     ELSE CASE c = "{" ->
                 LET n == SkipSpace(s, j + 1)
                 IN IF n <= Len(s) /\ CharAt(s, n) = "}"
                    THEN Parsed([k |-> "object"], n + 1)
                    ELSE ParseMembers(s, n, [k |-> "object"])
            [] c = "[" ->
                 LET n == SkipSpace(s, j + 1)
                 IN IF n <= Len(s) /\ CharAt(s, n) = "]"
                    THEN Parsed(Arr(<<>>), n + 1)
                    ELSE ParseElements(s, n, <<>>)
            [] c = "\"" -> ParseString(s, j)
            [] c = "-" \/ IsDigitAt(s, j) -> ParseNumber(s, j)
            [] StartsWithAt(s, "true", j) -> Parsed(Bool(TRUE), j + 4)
            [] StartsWithAt(s, "false", j) -> Parsed(Bool(FALSE), j + 5)
            [] StartsWithAt(s, "null", j) -> Parsed(Null, j + 4)
            [] OTHER -> NotJson

\* the members of an object from position i on (a key is due), added to acc;
\* a key given twice keeps its last value
ParseMembers(s, i, acc) ==
  IF i > Len(s) \/ CharAt(s, i) # "\"" THEN NotJson
  ELSE LET key == ParseString(s, i)
       IN IF ~key.ok THEN NotJson
          ELSE LET colon == SkipSpace(s, key.next)
               IN IF colon > Len(s) \/ CharAt(s, colon) # ":" THEN NotJson
                  ELSE LET val == ParseValue(s, colon + 1)
                       IN IF ~val.ok THEN NotJson
                          ELSE LET obj == (key.v.s :> val.v) @@ acc
                                   n == SkipSpace(s, val.next)
                               IN IF n > Len(s) THEN NotJson
                                  ELSE IF CharAt(s, n) = "}" THEN Parsed(obj, n + 1)
                                  ELSE IF CharAt(s, n) = ","
                                       THEN ParseMembers(s, SkipSpace(s, n + 1), obj)
                                       ELSE NotJson

\* the elements of an array from position i on, appended to acc
ParseElements(s, i, acc) ==
  LET val == ParseValue(s, i)
  IN IF ~val.ok THEN NotJson
     ELSE LET n == SkipSpace(s, val.next)
          IN IF n > Len(s) THEN NotJson
             ELSE IF CharAt(s, n) = "]" THEN Parsed(Arr(Append(acc, val.v)), n + 1)
             ELSE IF CharAt(s, n) = "," THEN ParseElements(s, n + 1, Append(acc, val.v))
             ELSE NotJson

\* JSON.parse(s): the value, or Threw for the SyntaxError
JSONParse(s) ==
  LET r == ParseValue(s, 1)
  IN IF r.ok /\ SkipSpace(s, r.next) > Len(s) THEN r.v ELSE Threw

\* text.match(/\{[\s\S]*\}/): the span from the first "{" to the last "}"
\* after it, or Null when there is none
MatchBraces(text) ==
  LET opens == {n \in 1..Len(text) : CharAt(text, n) = "{"}
      first == CHOOSE n \in opens : \A m \in opens : n <= m
      closes == {n \in 1..Len(text) : CharAt(text, n) = "}" /\ n > first}
      last == CHOOSE n \in closes : \A m \in closes : n >= m
  IN IF opens = {} THEN Null
     ELSE IF closes = {} THEN Null
     ELSE Str(SubSeq(text, first, last))

\* the backquote character (taken out of a two-character string, since a
\* string literal cannot hold it alone) and the code fence marker
Backquote == SubSeq("`'", 1, 1)

Fence == Backquote \o Backquote \o Backquote

RECURSIVE RemoveAll(_, _)
\* s.replace(/<fence>\n?/g, ''): every occurrence of fence, with the line
\* break after it if there is one, taken out from left to right
RemoveAll(s, fence) ==
  LET found == {n \in 1..Len(s) : StartsWithAt(s, fence, n)}
      first == CHOOSE n \in found : \A m \in found : n <= m
      after == first + Len(fence)
                 + (IF StartsWithAt(s, "\n", first + Len(fence)) THEN 1 ELSE 0)
  IN IF found = {} THEN s
     ELSE SubSeq(s, 1, first - 1) \o RemoveAll(SubSeq(s, after, Len(s)), fence)

\* s.replace(/<fence>\n?$/g, ""), fence being three backquotes: a fence at the
\* very end, with or without a line break after it, taken out
RemoveEndFence(s) ==
  IF Len(s) >= 4 /\ SubSeq(s, Len(s) - 3, Len(s)) = Fence \o "\n" THEN SubSeq(s, 1, Len(s) - 4)
  ELSE IF Len(s) >= 3 /\ SubSeq(s, Len(s) - 2, Len(s)) = Fence THEN SubSeq(s, 1, Len(s) - 3)
  ELSE s

\* jsonText of the intent-based variant
StripFences(text) ==
  LET jsonText == Trim(text)
  IN IF StartsWithAt(jsonText, Fence \o "json", 1)
     THEN RemoveEndFence(RemoveAll(jsonText, Fence \o "json"))
     ELSE IF StartsWithAt(jsonText, Fence, 1)
          THEN RemoveEndFence(RemoveAll(jsonText, Fence))
          ELSE jsonText

\* what attemptPageGeneration does: it returns a page or throws an error
PageReturned(page) == [k |-> "page", page |-> page]

ErrorThrown(message) == [k |-> "error", message |-> message]

\* the message of the SyntaxError of JSON.parse (worded by the engine)
SyntaxErrorMessage == "Unexpected token"

\* response.content.find((block) => block.type === "text"): the first text
\* block, or Undefined
FindTextBlock(content) ==
  IF \A n \in 1..Len(content) : content[n].type # "text" THEN Undefined
  ELSE content[CHOOSE n \in 1..Len(content) :
                 /\ content[n].type = "text"
                 /\ \A m \in 1..(n - 1) : content[m].type # "text"]

\* the template + retry variant, from the text block on
TemplateParse(textContent) ==
  IF textContent = Undefined THEN ErrorThrown("No text response from Claude")
  ELSE LET jsonMatch == MatchBraces(textContent.text)
           pageSpec == IF jsonMatch = Null THEN Threw ELSE JSONParse(jsonMatch.s)
       IN IF jsonMatch = Null
          THEN ErrorThrown("Failed to parse page specification: No JSON found in response")
          ELSE IF pageSpec = Threw
               THEN ErrorThrown("Failed to parse page specification: " \o SyntaxErrorMessage)
               ELSE PageReturned(pageSpec)

\* the intent-based variant, from the text block on; the log lines after
\* JSON.parse read properties of pageObject and throw on some values
IntentParse(textContent) ==
  IF textContent = Undefined THEN ErrorThrown("No text content in response")
  ELSE LET pageObject == JSONParse(StripFences(textContent.text))
       IN IF pageObject = Threw THEN ErrorThrown(SyntaxErrorMessage)
          ELSE IF LoggingThrows(pageObject) THEN ErrorThrown("TypeError")
          ELSE PageReturned(pageObject)

\* JSON bodies a backend writes: objects, and texts that are no object
ObjectBodies ==
  { "{\"type\": \"solution_brief\", \"sections\": [{\"type\": \"hero\", \"headline\": \"Grow\"}]}",
    "{\"type\":\"home\",\"meta\":{\"draft\":true,\"tags\":[1,-20,null]},\"sections\":[]}",
    "{}" }

OtherBodies ==
  { "{type: hero}", "{\"type\": \"hero\"", "{\"type\": \"hero\",}", "[1, 2]",
    "I cannot help with that.", "" }

Bodies == ObjectBodies \cup OtherBodies

\* how the backend wraps a body
Wrap(w, body) ==
  CASE w = "bare" -> body
    [] w = "json fence" -> Fence \o "json\n" \o body \o "\n" \o Fence
    [] w = "fence" -> Fence \o "\n" \o body \o "\n" \o Fence
    [] w = "json fence one line" -> Fence \o "json" \o body \o Fence
    [] w = "spaces" -> "  \n" \o body \o "\n"
    [] w = "prose before" -> "Here is the page:\n" \o body
    [] w = "prose after" -> body \o "\nLet me know if you want changes."
    [] w = "prose around" -> "Sure! " \o body \o " Enjoy."
    [] w = "fence then prose" -> Fence \o "json\n" \o body \o "\n" \o Fence \o "\nEnjoy."

FenceWrappings == {"json fence", "fence", "json fence one line"}

ProseWrappings == {"prose before", "prose after", "prose around"}

Wrappings == {"bare", "spaces", "fence then prose"} \cup FenceWrappings \cup ProseWrappings

\* the content of the responses: no block, no text block, a text block, a
\* text block after another block
Contents ==
  { <<>>, <<[type |-> "tool_use", text |-> ""]>> }
    \cup { <<[type |-> "text", text |-> Wrap(w, b)]>> : w \in Wrappings, b \in Bodies }
    \cup { <<[type |-> "thinking", text |-> "{}"],
             [type |-> "text", text |-> Wrap("bare", b)]>> : b \in Bodies }

Responses == {[k |-> "response", content |-> c] : c \in Contents}

\* response.content.find(...)
FindText ==
  /\ response # NoResponse
  /\ rawText = NotRun
  /\ rawText' = FindTextBlock(response.content)
  /\ UNCHANGED <<clientVars, renderVars, genVars, stream, chatMessage, classification, docVars, response, parsed>>

\* the rest of attemptPageGeneration
ParseText ==
  /\ rawText # NotRun
  /\ parsed = NotRun
  /\ parsed' = IF variant = "template" THEN TemplateParse(rawText)
               ELSE IntentParse(rawText)
  /\ UNCHANGED <<clientVars, renderVars, genVars, stream, chatMessage, classification, docVars, response, rawText>>

ParseInit ==
  /\ variant \in {"template", "intent"}
  /\ pool = {}
  /\ reqs = <<>>
  /\ calls = <<>>
  /\ batch = [pc |-> "idle", values |-> <<>>]
  /\ trackLog = <<>>
  /\ stream = NoStream
  /\ chatMessage = ""
  /\ classification = NotClassified
  /\ doc = NoDoc
  /\ validation = NotRun
  /\ sanitized = NotRun
  /\ resanitized = NotRun
  /\ revalidation = NotRun
  /\ response \in Responses
  /\ rawText = NotRun
  /\ parsed = NotRun
  /\ sections = <<>>
  /\ heightMap = NotRun
  /\ requests = <<>>
  /\ isGenerating = FALSE
  /\ loadingProgress = 0
  /\ currentQuery = ""
  /\ pageHistory = <<>>
  /\ chatMessages = <<>>

ParseNext ==
  \/ FindText
  \/ ParseText

ParseSpec == ParseInit /\ [][ParseNext]_vars

ParsedText == parsed # NotRun

\* C19: the response parser recovers the JSON object from each accepted
\* wrapping: text in code fences (with or without json after the opening
\* fence) is stripped and parsed, text with
\* prose around one outermost {...} span is parsed from that span, and text
\* with no JSON object or with an invalid span yields a parse failure, never
\* a page.
C19_ParserRecovers ==
  (ParsedText /\ rawText # Undefined) =>
    /\ \A w \in FenceWrappings \cup ProseWrappings :
         \A b \in ObjectBodies :
           rawText.text = Wrap(w, b) => parsed = PageReturned(JSONParse(b))
    /\ \A w \in Wrappings :
         \A b \in OtherBodies :
           rawText.text = Wrap(w, b) => parsed.k = "error"

\* how generateFromTemplate can settle without a page that validates: it
\* throws, reports failure, gives no page, or gives a page the validator
\* rejects or throws on
TemplateFailures == {"throws", "failed", "nopage", "invalid", "threw"}

\* C20: two-tier fallback of the template + retry generatePageSpec: the
\* template path is tried before any full-generation attempt; when it gives
\* a page that validates, that page is returned with retryCount 0 and no
\* full-generation attempt is made; when it throws, reports failure or gives
\* a page that fails validation, the full generation loop runs with a retry
\* budget of maxRetries = 2 of its own (retryCount from 0, up to 3 attempts).
C20_TwoTierFallback ==
  variant = "template" =>
    \A i \in 1..Len(calls) :
      LET c == calls[i]
      IN /\ c.template = "not settled" => (c.pc = "awaitTemplate" /\ c.attempts = 0)
         /\ c.template = "valid" =>
              /\ c.pc = "returned"
              /\ c.attempts = 0
              /\ c.result = Success(c.parsed, 0)
              /\ validatePageSpec(c.result.page) = Ok(<<>>)
         /\ c.template \in TemplateFailures =>
              /\ c.attempts >= 1
              /\ c.attempts = c.retryCount + 1
              /\ c.attempts <= maxRetries + 1
              /\ (c.pc = "returned" /\ ~c.result.success) =>
                   (c.attempts = maxRetries + 1 /\ c.result.retryCount = maxRetries)
              /\ (c.pc = "returned" /\ c.result.success) =>
                   (c.result.retryCount = c.attempts - 1 /\ Len(c.history) = c.attempts)

\* the template page failed validation and the full loop then used up its
\* three attempts
C20_Witness ==
  /\ variant = "template"
  /\ \E i \in 1..Len(calls) :
       /\ calls[i].template = "invalid"
       /\ calls[i].pc = "returned"
       /\ ~calls[i].result.success
       /\ calls[i].attempts = maxRetries + 1
       /\ calls[i].result.retryCount = maxRetries

\* s.endsWith(suffix)
EndsWith(s, suffix) ==
  Len(s) >= Len(suffix) /\ SubSeq(s, Len(s) - Len(suffix) + 1, Len(s)) = suffix

\* the violation list of the document call c was last handed, joined
LastViolations(c) == Join(validatePageSpec(c.parsed).errors)

\* the last attempt of call c that settled gave a document with violations
LastAttemptInvalid(c) ==
  c.history # <<>> /\ c.history[Len(c.history)] = "invalid"

\* C21: in the template + retry generatePageSpec, when validation gives a
\* non-empty violation list and retries remain, the request of the next
\* attempt has that list appended to its user message; when no retries
\* remain the result is success:false with an error string that contains the
\* joined violation strings of the last attempt.
C21_ValidationFeedback ==
  variant = "template" =>
    \A i \in 1..Len(calls) :
      LET c == calls[i]
      IN LastAttemptInvalid(c) =>
           IF Len(c.history) <= maxRetries
           THEN /\ c.pc = "awaitAttempt"
                /\ c.attempts = Len(c.history) + 1
                /\ c.request.userMessage.k = "string"
                /\ StartsWithAt(c.request.userMessage.s, Text(reqs[i].userMessage), 1)
                /\ EndsWith(c.request.userMessage.s,
                            "[Previous attempt had validation issues: "
                              \o LastViolations(c)
                              \o ". Please regenerate with these corrections.]")
           ELSE /\ c.pc = "returned"
                /\ ~c.result.success
                /\ Includes(c.result.error.s, LastViolations(c))
                /\ LastViolations(c) # ""

\* a second attempt is in flight with the feedback of an invalid first one
C21_Witness ==
  /\ variant = "template"
  /\ \E i \in 1..Len(calls) :
       /\ calls[i].history = <<"invalid">>
       /\ calls[i].pc = "awaitAttempt"
       /\ calls[i].request.userMessage # reqs[i].userMessage
       /\ Len(LastViolations(calls[i])) > 0

(***************************************************************************)
(* buildSystemPrompt and buildUserPrompt (template + retry variant)         *)
(***************************************************************************)
\* retryNote of buildSystemPrompt
retryNote(retryCount) ==
  IF retryCount > 0
  THEN "\nRetry " \o ToString(retryCount) \o ": Fix previous validation errors."
  ELSE ""

\* the end of the system prompt, the only part that varies between attempts
buildSystemPrompt(request, retryCount) ==
  "CONTENT: Beverage-specific, professional B2B\nOUTPUT: Valid JSON only"
    \o retryNote(retryCount)

\* buildUserPrompt for a request without page context, persona description
\* and knowledge documents, of page type solution_brief
buildUserPrompt(request) ==
  "QUERY: \"" \o Text(request.userMessage) \o "\"" \o "\n"
    \o "\nGenerate solution_brief with varied sections. Output JSON only."

\* the prompts of the attempt that call c has in flight
AttemptPrompt(c) ==
  buildSystemPrompt(c.request, c.retryCount) \o "\n" \o buildUserPrompt(c.request)

\* the message of the error a failed attempt threw
FailureMessage(kind) ==
  IF variant = "template" THEN AttemptErrorMessage([kind |-> kind])
  ELSE IntentAttemptErrorMessage([kind |-> kind])

\* the last attempt of call c that settled failed in the backend call
\* (GENERATE) or in parsing its text (PARSE)
LastAttemptFailed(c) ==
  c.history # <<>> /\ c.history[Len(c.history)] \in {"transport", "parse"}

\* C22: when a GENERATE or PARSE step fails and retries remain, the next
\* attempt is made and, after a parse failure, its prompt holds an instruction
\* that describes that failure; when no retries remain the result is
\* success:false with the message of the failure as its error.
C22_FailureRetried ==
  \A i \in 1..Len(calls) :
    LET c == calls[i]
        last == c.history[Len(c.history)]
    IN LastAttemptFailed(c) =>
         IF Len(c.history) <= maxRetries
         THEN /\ c.pc = "awaitAttempt"
              /\ c.attempts = Len(c.history) + 1
              /\ last = "parse" => Includes(AttemptPrompt(c), FailureMessage(last))
         ELSE /\ c.pc = "returned"
              /\ c.result = Failure(FailureMessage(last), c.retryCount)

\* the backend calls of call c that were issued and have not settled yet
InFlight(c) == c.attempts - Len(c.history)

\* C23: within one generatePageSpec call the attempts are strictly
\* sequential: a backend call is in flight only while the call awaits it, all
\* earlier ones have settled and been handled by then, and so at most one
\* generation call of an invocation is in flight at any time.
C23_SequentialRetries ==
  \A i \in 1..Len(calls) :
    LET c == calls[i]
    IN /\ InFlight(c) = (IF c.pc = "awaitAttempt" THEN 1 ELSE 0)
       /\ c.pc = "awaitTemplate" => c.attempts = 0
       /\ c.pc = "awaitAttempt" => c.retryCount = Len(c.history)

\* the third attempt is in flight after two attempts that settled
C23_Witness ==
  \E i \in 1..Len(calls) :
    /\ calls[i].pc = "awaitAttempt"
    /\ calls[i].attempts = 3
    /\ Len(calls[i].history) = 2

\* the message as classifyIntent normalizes it
Normalized == Trim(ToLowerCase(chatMessage))

\* no keyword, phrase or pattern of any intent matched
AllScoresZero ==
  /\ Classified
  /\ \A it \in DOMAIN classification.scores : classification.scores[it] = 0

\* C24: when every intent scores 0 the fallback rules apply in order: a
\* message shorter than 20 characters that contains bevgenie gives
\* product_inquiry; else a message that contains ? and has fewer than 10 words
\* gives feature_question; else use_case; the empty or whitespace-only
\* message gives use_case with confidence 0.3.
C24_FallbackRules ==
  AllScoresZero =>
    /\ classification.intent =
         (IF Len(Normalized) < 20 /\ Includes(Normalized, "bevgenie")
          THEN "product_inquiry"
          ELSE IF Includes(Normalized, "?") /\ WordCount(Normalized) < 10
          THEN "feature_question"
          ELSE "use_case")
    /\ WordCount(Normalized) = 0 =>
         (classification.intent = "use_case"
            /\ classification.confidence = [num |-> 3, den |-> 10])

\* C24 (amended): when every intent scores 0 the message does not contain
\* bevgenie (a product_inquiry keyword), so the first rule never applies; a
\* message that contains ? and has fewer than 10 parts between single spaces
\* (other white space does not separate, two spaces in a row add a part) gives
\* feature_question; every other one, the empty one included, gives
\* use_case; the confidence is 0.3.
C24_FallbackBySpaces ==
  AllScoresZero =>
    LET spaces == Cardinality({n \in 1..Len(Normalized) : CharAt(Normalized, n) = " "})
    IN /\ ~Includes(Normalized, "bevgenie")
       /\ classification.intent =
            (IF Includes(Normalized, "?") /\ spaces + 1 < 10
             THEN "feature_question" ELSE "use_case")
       /\ classification.confidence = [num |-> 3, den |-> 10]
       /\ Normalized = "" => classification.intent = "use_case"

\* six words and a question mark, yet eleven parts between spaces: use_case
C24_Witness ==
  /\ AllScoresZero
  /\ Includes(Normalized, "?")
  /\ WordCount(Normalized) = 6
  /\ classification.intent = "use_case"

\* the sum of the seven scores classifyIntent kept
ScoreTotal ==
  LET scores == classification.scores
  IN scores["product_inquiry"] + scores["feature_question"] + scores["comparison"]
       + scores["stats_roi"] + scores["implementation"] + scores["use_case"]
       + scores["off_topic"]

\* the fraction f equals min(1, maxScore / (0.6 * total)), or 0.3 for total 0
IsConfidenceOf(f, maxScore, total) ==
  IF total = 0 THEN f.num * 10 = 3 * f.den
  ELSE IF 10 * maxScore >= 6 * total THEN f.num = f.den
  ELSE f.num * 6 * total = 10 * maxScore * f.den

\* C25: with total the sum of the seven scores after the synthetic score of
\* the edge-case rule has been put in, the confidence is 0.3 when total is 0
\* and min(1.0, maxScore / (total * 0.6)) otherwise.
C25_ConfidenceOfInjectedTotal ==
  Classified =>
    LET injected == IF ScoreTotal = 0 THEN classification.maxScore ELSE 0
    IN IsConfidenceOf(classification.confidence, classification.maxScore,
                      ScoreTotal + injected)

\* C25 (amended): the synthetic score of an edge-case rule only replaces
\* maxScore and is not added to any score; with total the sum of the seven
\* pattern scores the confidence is 0.3 when total is 0 (exactly when a
\* fallback rule decided) and min(1.0, maxScore / (total * 0.6)) otherwise,
\* so it is 1.0 exactly when the winning score is at least 60% of total.
C25_ConfidenceOfPatternTotal ==
  Classified =>
    /\ IsConfidenceOf(classification.confidence, classification.maxScore, ScoreTotal)
    /\ (ScoreTotal = 0) = (classification.maxScore
                             # HighestScore(classification.scores))
    /\ ScoreTotal > 0 =>
         ((classification.confidence.num = classification.confidence.den)
            = (10 * classification.maxScore >= 6 * ScoreTotal))

\* the winning score is under 60% of the total and the confidence under 1
C25_Witness ==
  /\ Classified
  /\ ScoreTotal > 0
  /\ 10 * classification.maxScore < 6 * ScoreTotal
  /\ classification.confidence.num < classification.confidence.den

\* the form of a matchedPatterns identifier
KindOf(id) ==
  IF StartsWithAt(id, "keyword:", 1) THEN "keyword"
  ELSE IF StartsWithAt(id, "phrase:", 1) THEN "phrase"
  ELSE IF StartsWithAt(id, "pattern:", 1) THEN "pattern"
  ELSE "other"

KindRank == [keyword |-> 1, phrase |-> 2, pattern |-> 3, other |-> 4]

\* the identifiers of the keywords, phrases and question patterns of an
\* intent that the normalized message matches
ContributingTo(intent) ==
  LET P == INTENT_PATTERNS[intent]
  IN {"keyword:" \o P.keywords[n] :
        n \in {m \in 1..Len(P.keywords) : Includes(Normalized, P.keywords[m])}}
       \cup {"phrase:" \o P.phrases[n] :
               n \in {m \in 1..Len(P.phrases) : Includes(Normalized, P.phrases[m])}}
       \cup {"pattern:" \o ToString(n - 1) :
               n \in {m \in 1..Len(P.questionPatterns) :
                        Test(P.questionPatterns[m], Normalized)}}

\* how many entries of the list ids have the given form
CountOfKind(ids, kind) == Cardinality({n \in 1..Len(ids) : KindOf(ids[n]) = kind})

\* ids lists exactly the patterns that contributed to the winning score:
\* each once, keywords before phrases before patterns, and the score is 1 per
\* keyword, 3 per phrase and 5 per pattern
ExplainsScore(ids, intent, score) ==
  /\ \A n \in 1..Len(ids) : KindOf(ids[n]) # "other"
  /\ \A m, n \in 1..Len(ids) : m < n => KindRank[KindOf(ids[m])] <= KindRank[KindOf(ids[n])]
  /\ {ids[n] : n \in 1..Len(ids)} = ContributingTo(intent)
  /\ Len(ids) = Cardinality(ContributingTo(intent))
  /\ score = CountOfKind(ids, "keyword") + 3 * CountOfKind(ids, "phrase")
               + 5 * CountOfKind(ids, "pattern")

\* C26: matchedPatterns holds only identifiers of the forms keyword:<kw>,
\* phrase:<p> and pattern:<index>, lists exactly the patterns that contributed
\* to the score of the winning intent, keywords first, then phrases, then
\* regexes, and the winning score is 1 per keyword entry + 3 per phrase entry
\* + 5 per pattern entry.
C26_PatternsExplainScore ==
  Classified =>
    ExplainsScore(classification.matchedPatterns, classification.intent,
                  classification.maxScore)

\* C26 (amended): this holds when some pattern matched; when none did,
\* matchedPatterns is the single identifier of the fallback rule that decided
\* (rule:short_question for feature_question, rule:generic_query for
\* use_case) and the winning score is the synthetic 1.
C26_PatternsOrRule ==
  Classified =>
    IF ScoreTotal > 0
    THEN ExplainsScore(classification.matchedPatterns, classification.intent,
                       classification.maxScore)
    ELSE /\ classification.maxScore = 1
         /\ classification.matchedPatterns =
              (IF classification.intent = "feature_question"
               THEN <<"rule:short_question">> ELSE <<"rule:generic_query">>)
         /\ classification.intent \in {"feature_question", "use_case"}

\* a winning intent with a keyword, a phrase and a question pattern matched
C26_Witness ==
  /\ Classified
  /\ CountOfKind(classification.matchedPatterns, "keyword") > 0
  /\ CountOfKind(classification.matchedPatterns, "phrase") > 0
  /\ CountOfKind(classification.matchedPatterns, "pattern") > 0

\* ---------------------------------------------------------------------
\* The renderer's height normalization (dynamic-page-renderer.tsx)
\* ---------------------------------------------------------------------

RECURSIVE SumSeq(_)
SumSeq(q) == IF q = <<>> THEN 0 ELSE Head(q) + SumSeq(Tail(q))

Max(a, b) == IF a >= b THEN a ELSE b

NaN == [k |-> "NaN"]

\* parseInt(s): the leading integer of s, NaN when there is none
parseInt(s) ==
  LET neg == StartsWithAt(s, "-", 1)
      j == IF neg THEN 2 ELSE 1
  IN IF ~IsDigitAt(s, j) THEN NaN
     ELSE LET n == ParseDigits(s, j, 0).v.n IN IF neg THEN 0 - n ELSE n

\* the template string of a percentage
Percent(n) == ToString(n) \o "%"

\* a number that is the quotient of two integers
Frac(num, den) == [k |-> "fraction", num |-> num, den |-> den]

HeightMap(entries) == [k |-> "map", entries |-> entries]

\* Array.from(heightMap.entries()).reduce((max, curr) =>
\*   parseInt(curr[1]) > parseInt(max[1]) ? curr : max)[0], from entry n on
\* with the entry max so far
RECURSIVE ReduceLargest(_, _, _)
ReduceLargest(entries, max, n) ==
  IF n > Len(entries) THEN max
  ELSE ReduceLargest(entries,
                     IF parseInt(entries[n]) > parseInt(entries[max]) THEN n ELSE max,
                     n + 1)

\* the first pass and the handling of missing heights; the requested heights
\* are integers, a missing one is undefined, and 0 counts as missing
RequestedHeights(secs) ==
  LET N == Len(secs)
      withHeight == {n \in 1..N : Truthy(secs[n])}
      requested == SumSeq([n \in 1..N |-> IF n \in withHeight THEN secs[n].n ELSE 0])
      sectionsWithoutHeight == N - Cardinality(withHeight)
      remainingPercent == Max(0, 100 - requested)
  IN [withHeight |-> withHeight,
      sectionsWithoutHeight |-> sectionsWithoutHeight,
      remainingPercent |-> remainingPercent,
      totalRequested |-> IF sectionsWithoutHeight > 0 THEN requested + remainingPercent
                         ELSE requested]

\* section.layout = { requestedHeightPercent: perSection } on the sections
\* without a height
LayoutsAfter(secs) ==
  LET r == RequestedHeights(secs)
  IN [n \in 1..Len(secs) |->
        IF n \in r.withHeight THEN secs[n]
        ELSE Frac(r.remainingPercent, r.sectionsWithoutHeight)]

\* Math.floor(num / den) computed in doubles: where the exact quotient is a
\* positive integer the double product may fall just below it
FloorOfDouble(num, den) ==
  IF num > 0 /\ num % den = 0 THEN {num \div den, num \div den - 1}
  ELSE {num \div den}

\* Math.floor(requestedPercent * normalizationFactor) of section n
NormalizedPercent(secs, n) ==
  LET r == RequestedHeights(secs)
  IN IF n \in r.withHeight THEN FloorOfDouble(secs[n].n * 100, r.totalRequested)
     ELSE FloorOfDouble(r.remainingPercent * 100,
                        r.sectionsWithoutHeight * r.totalRequested)

\* the second pass over the first n sections: the normalized percentages
RECURSIVE SecondPass(_, _)
SecondPass(secs, n) ==
  IF n = 0 THEN {<<>>}
  ELSE {Append(normalized, x) :
          normalized \in SecondPass(secs, n - 1), x \in NormalizedPercent(secs, n)}

\* the adjustment of the largest section and the return
AdjustLargest(normalized) ==
  LET actualTotal == SumSeq(normalized)
      entries == [n \in 1..Len(normalized) |-> Percent(normalized[n])]
  IN IF actualTotal < 100
     THEN IF entries = <<>> THEN Threw  \* reduce of an empty array, no initial value
          ELSE LET diff == 100 - actualTotal
                   largestIndex == ReduceLargest(entries, 1, 2)
                   currentPercent == parseInt(entries[largestIndex])
               IN HeightMap([entries EXCEPT ![largestIndex] = Percent(currentPercent + diff)])
     ELSE HeightMap(entries)

\* what getSectionHeightsFromLLM(secs) may do
getSectionHeightsFromLLM(secs) ==
  {AdjustLargest(normalized) : normalized \in SecondPass(secs, Len(secs))}

MaxRows == 3

\* layout?.requestedHeightPercent of a section: absent or a number
RequestedPercents == {Undefined, Num(0), Num(15), Num(20), Num(40), Num(50), Num(100)}

RECURSIVE SeqsUpTo(_, _)
SeqsUpTo(S, n) ==
  IF n = 0 THEN {<<>>}
  ELSE LET shorter == SeqsUpTo(S, n - 1)
       IN shorter \cup {Append(q, x) : q \in {p \in shorter : Len(p) = n - 1}, x \in S}

RenderInit ==
  /\ variant = "intent"
  /\ pool = {}
  /\ reqs = <<>>
  /\ calls = <<>>
  /\ batch = [pc |-> "idle", values |-> <<>>]
  /\ trackLog = <<>>
  /\ stream = NoStream
  /\ chatMessage = ""
  /\ classification = NotClassified
  /\ doc = NoDoc
  /\ validation = NotRun
  /\ sanitized = NotRun
  /\ resanitized = NotRun
  /\ revalidation = NotRun
  /\ response = NoResponse
  /\ rawText = NotRun
  /\ parsed = NotRun
  /\ sections \in SeqsUpTo(RequestedPercents, MaxRows)
  /\ heightMap = NotRun
  /\ requests = <<>>
  /\ isGenerating = FALSE
  /\ loadingProgress = 0
  /\ currentQuery = ""
  /\ pageHistory = <<>>
  /\ chatMessages = <<>>

\* useMemo(() => getSectionHeightsFromLLM(sanitizedPage.sections))
RenderHeights ==
  /\ heightMap = NotRun
  /\ heightMap' \in getSectionHeightsFromLLM(sections)
  /\ sections' = LayoutsAfter(sections)
  /\ UNCHANGED <<clientVars, genVars, stream, chatMessage, classification, docVars, parseVars>>

RenderNext == RenderHeights

RenderSpec == RenderInit /\ [][RenderNext]_vars

\* C27: getSectionHeightsFromLLM always assigns heights that sum to exactly
\* 100%: for any section list, each requestedHeightPercent absent or a
\* number, the integer percentages of the returned map, one per section, add
\* up to exactly 100.
C27_HeightsSumTo100 ==
  heightMap # NotRun =>
    /\ heightMap.k = "map"
    /\ Len(heightMap.entries) = Len(sections)
    /\ SumSeq([n \in 1..Len(heightMap.entries) |-> parseInt(heightMap.entries[n])]) = 100

\* the stages of processStreamWithController, in the order of the code
StageOrder == <<"init", "intent", "signals", "knowledge", "response", "page", "complete">>

StageRank(stageId) == CHOOSE n \in 1..Len(StageOrder) : StageOrder[n] = stageId

IsStageEvent(e) == e.event = "stage"

\* the stage events sent so far, in order
StageEvents == SelectSeq(stream.events, IsStageEvent)

\* the positions of the events of one type
EventsOf(name) == {n \in 1..Len(stream.events) : stream.events[n].event = name}

\* the run ended without an exception reaching the outer catch
RunCompleted == stream.pc = "closed" /\ ~HasEvent("error")

\* C28: in a run of processStreamWithController in which no exception
\* reaches the outer catch, the stage events come in the fixed order init,
\* intent, signals, knowledge, response, page, complete, and the 'complete'
\* event is sent exactly once, after the stage event of 'page', whether page
\* generation succeeded, returned success:false or the parallel step threw;
\* a 'page' event is sent only when generatePageSpec returned success with a
\* page.
C28_StagesThenComplete ==
  /\ \A m, n \in 1..Len(StageEvents) :
       m < n => StageRank(StageEvents[m].stageId) <= StageRank(StageEvents[n].stageId)
  /\ RunCompleted =>
       /\ {StageEvents[n].stageId : n \in 1..Len(StageEvents)}
            = {StageOrder[n] : n \in 1..Len(StageOrder)}
       /\ Cardinality(EventsOf("complete")) = 1
       /\ \A n \in EventsOf("complete") :
            /\ \E m \in 1..(n - 1) : stream.events[m] = StageEvent("page", "complete")
            /\ \A m \in 1..(n - 1) : stream.events[m] # StageEvent("complete", "complete")
  /\ ~RunCompleted => EventsOf("complete") = {}
  /\ \A n \in EventsOf("page") :
       /\ calls # <<>>
       /\ calls[1].pc = "returned"
       /\ calls[1].result.success
       /\ Truthy(Get(calls[1].result, "page"))
       /\ stream.events[n].page = calls[1].result.page

\* the parallel step threw (the text result has no content array) and the
\* run still sent its 'complete' event after the stage event of 'page'
C28_Witness ==
  /\ RunCompleted
  /\ Truthy(stream.text.value)
  /\ Get(stream.text.value, "content").k # "array"
  /\ ~HasEvent("text")
  /\ EventsOf("complete") # {}

\* ---------------------------------------------------------------------
\* The client HomePage (app/page.tsx) reading the SSE response
\* ---------------------------------------------------------------------

\* an object literal on the server: its members in insertion order
Members(m) == [k |-> "members", m |-> m]

RECURSIVE JSONStringify(_)
RECURSIVE StringifyMembers(_, _)
\* JSON.stringify(v) for strings without characters to escape
JSONStringify(v) ==
  CASE v.k = "string" -> "\"" \o v.s \o "\""
    [] v.k = "number" -> ToString(v.n)
    [] v.k = "boolean" -> (IF v.b THEN "true" ELSE "false")
    [] v.k = "members" -> "{" \o StringifyMembers(v.m, 1) \o "}"
    [] OTHER -> "null"

\* the members n.. of an object literal; a member that is undefined is left out
StringifyMembers(m, n) ==
  IF n > Len(m) THEN ""
  ELSE LET rest == StringifyMembers(m, n + 1)
       IN IF m[n][2] = Undefined THEN rest
          ELSE "\"" \o m[n][1] \o "\":" \o JSONStringify(m[n][2])
                 \o (IF rest = "" THEN "" ELSE "," \o rest)

createEvent(eventType, data) ==
  "event: " \o eventType \o "\ndata: " \o JSONStringify(data) \o "\n\n"

\* the page of a 'page' event
SentPage == Members(<< <<"type", Str("faq")>> >>)

\* what sendEvent wrote for 'text', for 'page' and for the stage 'page'
TextChunk == createEvent("text", Members(<< <<"text", Str("Hi")>> >>))

PageChunk == createEvent("page", Members(<< <<"page", SentPage>> >>))

StageChunk == createEvent("stage", Members(<< <<"stageId", Str("page")>> >>))

\* the end of the response body of a run of the endpoint, from the 'text'
\* event on: with a page, without one
BodyWithPage == TextChunk \o PageChunk \o StageChunk

BodyWithoutPage == TextChunk \o StageChunk

\* how fetch settles: a rejection, a status that is not ok, or a body
FetchOutcomes ==
  { [kind |-> "rejected", message |-> "Failed to fetch"],
    [kind |-> "status", message |-> "API error: 500 Internal Server Error"],
    [kind |-> "body", body |-> BodyWithPage],
    [kind |-> "body", body |-> BodyWithoutPage] }

\* text.split(sep)
RECURSIVE Split(_, _)
Split(text, sep) ==
  IF ~Includes(text, sep) THEN <<text>>
  ELSE LET at == CHOOSE i \in 1..Len(text) :
                   /\ StartsWithAt(text, sep, i)
                   /\ \A j \in 1..(i - 1) : ~StartsWithAt(text, sep, j)
       IN <<SubSeq(text, 1, at - 1)>> \o Split(SubSeq(text, at + Len(sep), Len(text)), sep)

stageProgress ==
  [init |-> 5, intent |-> 15, signals |-> 35, knowledge |-> 55, response |-> 75,
   page |-> 90, complete |-> 100]

\* the body of `for (const line of lines)` on the locals and loadingProgress
HandleLine(acc, line) ==
  IF ~StartsWithAt(line, "data: ", 1) THEN acc
  ELSE LET event == JSONParse(SubSeq(line, 7, Len(line)))
       IN IF event.k = "throw" \/ IsNullish(event) THEN acc  \* caught: line skipped
          ELSE LET stageId == Get(event, "stageId")
                   text == Get(event, "text")
                   page == Get(event, "page")
               IN [loadingProgress |->
                     IF ~Truthy(stageId) THEN acc.loadingProgress
                     ELSE IF stageId.k = "string" /\ stageId.s \in DOMAIN stageProgress
                     THEN stageProgress[stageId.s] ELSE 0,
                   textResponse |->
                     IF Truthy(text) /\ text.k = "string" THEN acc.textResponse \o text.s
                     ELSE acc.textResponse,
                   generatedPage |-> IF Truthy(page) THEN page ELSE acc.generatedPage]

RECURSIVE HandleLines(_, _)
HandleLines(acc, lines) ==
  IF lines = <<>> THEN acc ELSE HandleLines(HandleLine(acc, Head(lines)), Tail(lines))

MaxRequests == 2

\* reader.read() yields chunks of a multiple of this many bytes, or the rest
ChunkUnit == 16

\* the ways a click or a send calls handleSendMessage
ChatSend == [query |-> "q", context |-> "none", isNavigationClick |-> FALSE]

HeroCtaClick ==
  [query |-> "I want to grow with confidence", context |-> "hero-cta",
   isNavigationClick |-> FALSE]

NavigationClick(query) ==
  [query |-> query \o " - User clicked on: learn_more", context |-> "learn_more",
   isNavigationClick |-> TRUE]

UserMessage(content) == [role |-> "user", content |-> content]

AssistantMessage(content) == [role |-> "assistant", content |-> content]

\* handleSendMessage up to `await fetch(...)`
handleSendMessage(call) ==
  /\ Len(requests) < MaxRequests
  /\ currentQuery' = call.query
  /\ isGenerating' = TRUE
  /\ loadingProgress' = 0
  /\ chatMessages' = IF call.isNavigationClick THEN chatMessages
                     ELSE Append(chatMessages, UserMessage(call.query))
  /\ requests' = Append(requests,
                        [pc |-> "fetch", call |-> call, response |-> Undefined,
                         unread |-> "",
                         generatedPage |-> Null, textResponse |-> ""])
  /\ UNCHANGED pageHistory

\* the catch of handleSendMessage
CatchGeneration(i, message) ==
  /\ isGenerating' = FALSE
  /\ chatMessages' =
       IF requests[i].call.isNavigationClick THEN chatMessages
       ELSE Append(chatMessages,
                   AssistantMessage("Sorry, I encountered an error: " \o message
                                      \o ". Please try again."))
  /\ requests' = [requests EXCEPT ![i].pc = "done"]
  /\ UNCHANGED <<loadingProgress, currentQuery, pageHistory>>

\* a chat send or a hero button click
SendsMessage ==
  /\ \E call \in {ChatSend, HeroCtaClick} : handleSendMessage(call)
  /\ UNCHANGED <<genVars, stream, chatMessage, classification, docVars, parseVars, renderVars>>

\* handleNavigationClick on a generated page
ClicksNavigation ==
  /\ pageHistory # <<>>
  /\ handleSendMessage(NavigationClick(currentQuery))
  /\ UNCHANGED <<genVars, stream, chatMessage, classification, docVars, parseVars, renderVars>>

\* fetch settles for invocation i
FetchSettles ==
  /\ \E i \in 1..Len(requests), o \in FetchOutcomes :
       /\ requests[i].pc = "fetch"
       /\ IF o.kind = "body"
          THEN /\ requests' = [requests EXCEPT ![i].pc = "reading",
                                               ![i].response = Str(o.body),
                                               ![i].unread = o.body]
               /\ UNCHANGED <<isGenerating, loadingProgress, currentQuery, pageHistory,
                              chatMessages>>
          ELSE CatchGeneration(i, o.message)
  /\ UNCHANGED <<genVars, stream, chatMessage, classification, docVars, parseVars, renderVars>>

\* reader.read() of invocation i yields a chunk: a prefix of what is unread
ReadsChunk ==
  /\ \E i \in 1..Len(requests) :
       /\ requests[i].pc = "reading"
       /\ requests[i].unread # ""
       /\ \E n \in 1..Len(requests[i].unread) :
            /\ n % ChunkUnit = 0 \/ n = Len(requests[i].unread)
            /\ LET text == SubSeq(requests[i].unread, 1, n)
                   acc == HandleLines([loadingProgress |-> loadingProgress,
                                       textResponse |-> requests[i].textResponse,
                                       generatedPage |-> requests[i].generatedPage],
                                      Split(text, "\n"))
               IN /\ loadingProgress' = acc.loadingProgress
                  /\ requests' =
                       [requests EXCEPT
                          ![i].unread = SubSeq(@, n + 1, Len(@)),
                          ![i].textResponse = acc.textResponse,
                          ![i].generatedPage = acc.generatedPage]
       /\ UNCHANGED <<isGenerating, currentQuery, pageHistory, chatMessages>>
  /\ UNCHANGED <<genVars, stream, chatMessage, classification, docVars, parseVars, renderVars>>

\* reader.read() of invocation i rejects
ReadFails ==
  /\ \E i \in 1..Len(requests) :
       /\ requests[i].pc = "reading"
       /\ requests[i].unread # ""
       /\ CatchGeneration(i, "network error")
  /\ UNCHANGED <<genVars, stream, chatMessage, classification, docVars, parseVars, renderVars>>

\* reader.read() of invocation i yields done: the rest of the try block
ReadsDone ==
  /\ \E i \in 1..Len(requests) :
       LET r == requests[i]
       IN /\ r.pc = "reading"
          /\ r.unread = ""
          /\ requests' = [requests EXCEPT ![i].pc = "done"]
          /\ isGenerating' = FALSE
          /\ IF Truthy(r.generatedPage)
             THEN /\ pageHistory' =
                       Append(pageHistory,
                              [query |-> r.call.query, content |-> r.generatedPage,
                               textResponse |->
                                 IF r.textResponse # "" THEN r.textResponse
                                 ELSE "Here's what I found about \"" \o r.call.query \o "\"",
                               context |-> r.call.context])
                  /\ chatMessages' =
                       IF ~r.call.isNavigationClick /\ r.textResponse # ""
                       THEN Append(chatMessages, AssistantMessage(r.textResponse))
                       ELSE chatMessages
             ELSE /\ pageHistory' = pageHistory
                  /\ chatMessages' =
                       IF r.call.isNavigationClick THEN chatMessages
                       ELSE Append(chatMessages,
                                   AssistantMessage("Unable to generate a page at this time. Please try rephrasing your question."))
          /\ UNCHANGED <<loadingProgress, currentQuery>>
  /\ UNCHANGED <<genVars, stream, chatMessage, classification, docVars, parseVars, renderVars>>

ClientInit ==
  /\ variant = "intent"
  /\ pool = {}
  /\ reqs = <<>>
  /\ calls = <<>>
  /\ batch = [pc |-> "idle", values |-> <<>>]
  /\ trackLog = <<>>
  /\ stream = NoStream
  /\ chatMessage = ""
  /\ classification = NotClassified
  /\ doc = NoDoc
  /\ validation = NotRun
  /\ sanitized = NotRun
  /\ resanitized = NotRun
  /\ revalidation = NotRun
  /\ response = NoResponse
  /\ rawText = NotRun
  /\ parsed = NotRun
  /\ sections = <<>>
  /\ heightMap = NotRun
  /\ requests = <<>>
  /\ isGenerating = FALSE
  /\ loadingProgress = 0
  /\ currentQuery = ""
  /\ pageHistory = <<>>
  /\ chatMessages = <<>>

ClientNext ==
  \/ SendsMessage
  \/ ClicksNavigation
  \/ FetchSettles
  \/ ReadsChunk
  \/ ReadFails
  \/ ReadsDone

ClientSpec == ClientInit /\ [][ClientNext]_vars

\* the invocations of handleSendMessage that have not finished
RequestsInFlight == {i \in 1..Len(requests) : requests[i].pc # "done"}

\* C29: for every interleaving of handleSendMessage calls, isGenerating is
\* true whenever at least one request is still in flight, and false once
\* every request has finished on any path (page received, no page, error).
C29_GeneratingWhileInFlight ==
  /\ RequestsInFlight # {} => isGenerating
  /\ (RequestsInFlight = {} /\ requests # <<>>) => ~isGenerating

\* the finished invocations whose response body held a 'page' event
ServedPage ==
  {i \in 1..Len(requests) :
     /\ requests[i].pc = "done"
     /\ requests[i].unread = ""
     /\ requests[i].response = Str(BodyWithPage)}

\* C30: every 'page' event the server wrote to a response is captured as
\* generatedPage and appended to pageHistory exactly once, however the body
\* is split into read chunks.
C30_EveryPageCaptured ==
  /\ \A i \in ServedPage : requests[i].generatedPage = JSONParse(JSONStringify(SentPage))
  /\ Len(pageHistory) = Cardinality(ServedPage)

====
